---------------------------- MODULE Spec2Model ----------------------------
(***************************************************************************)
(* A model of the watch-and-list cache of                                  *)
(* staging/src/k8s.io/apiserver/pkg/storage/cacher/cacher.go: the Cacher   *)
(* (registry of watchers, event dispatcher, readiness gate, Watch / Get /  *)
(* GetList entry points) together with the collaborators it calls: the     *)
(* watch cache (ring + current state + read/write lock), the per-client    *)
(* cacheWatcher and the ready latch.                                       *)
(*                                                                         *)
(* The code of the collaborators (watch_cache.go, cache_watcher.go,        *)
(* ready.go, time_budget.go) is not part of the files at hand; their       *)
(* definitions follow the specification text and the way cacher.go calls   *)
(* them.  The watch-cache lock is a Go sync.RWMutex: a blocked Lock call   *)
(* excludes new readers, and sync.Cond.Wait releases and re-takes the      *)
(* (read) lock.                                                            *)
(***************************************************************************)
EXTENDS Integers, Sequences, FiniteSets, TLC

(* ---------------------------- bounds ---------------------------------- *)
\* number of Watch callers (each performs at most one Watch call)
NumClients == 2
\* highest resource version the backing store hands out
MaxRV == 3
\* capacity of the watch cache's ring of events
RingCap == 1
\* buffer size of a watcher's input channel (chanSize in Watch)
ChanSize == 1
\* buffer size of Cacher.incoming (100 in NewCacherFromConfig)
IncomingCap == 1
\* highest readiness generation, i.e. number of successful lists
MaxGen == 2
\* bookmark ticks of the dispatcher that find a revision to announce
MaxBookmarks == 1
\* callers of Cacher.Stop
NumStopCallers == 2
\* clients that call Watch in the specification with reflector restarts
NumRestartClients == 1
\* calls of Delete and GuaranteedUpdate made by the writer
MaxCalls == 2

Clients == 1..NumClients
StopCallers == 1..NumStopCallers

VARIABLES
  \* ---- watch cache (watchCache) ----
  wcRV,          \* watchCache.resourceVersion
  listRV,        \* revision of the last Replace
  ring,          \* the ring of retained events, oldest first
  store,         \* current state of the (single) object: [present, lab]
  wcWriter,      \* the reflector holds the write lock
  wcWriterPending, \* the reflector is blocked in Lock()
  wcReaders,     \* read locks held, per client task
  log,           \* history: every event assimilated since the last Replace
  \* ---- reflector / startCaching ----
  rpc,           \* position of the reflector goroutine
  successfulList,
  pendingEvent,  \* event being handed to Cacher.processEvent
  \* ---- readiness gate (ready) ----
  readyState,    \* "Pending" | "Ready" | "Stopped"
  generation,
  cacherStopped, \* Cacher.stopped
  stopCh,        \* how many times Cacher.stopCh was closed
  spc,           \* position of each caller of Cacher.Stop
  \* ---- Cacher ----
  cacherLock,    \* holder of Cacher.RWMutex (write mode), or Free
  watcherIdx,
  allWatchers,   \* scope -> set of <<number, watcher>>
  valueWatchers, \* trigger value -> set of <<number, watcher>>
  incoming,      \* Cacher.incoming channel
  dispatching,
  watchersBuffer,
  blockedWatchers,
  watchersToStop,
  bookmarkWatchers,        \* watcher -> number of entries in the time buckets
  expiredBookmarkWatchers,
  \* ---- dispatcher goroutine (dispatchEvents / dispatchEvent) ----
  dpc,           \* position of the dispatcher
  curEvent,      \* event being dispatched
  bidx,          \* index into blockedWatchers of the blocking pass
  lastProcessedRV, bookmarkTicks,
  \* ---- Watch call of each client ----
  pc,            \* position in Cacher.Watch
  opts,          \* the options of the call
  readyGen,      \* readyGeneration read at the gate
  interval,      \* cacheInterval computed under the read lock
  startRV,       \* startWatchRV
  handle,        \* what Watch returned: "none" | "watcher" | "error" | "closed" |
                 \* "storage" (the watcher of the storage) | "nil"
  werr,          \* the error Watch returned, "nil" for none
  storageRV,     \* revision read from the storage for a call without one
  \* ---- cacheWatcher of each client ----
  widx,          \* registry number given at registration (-1: none)
  input,         \* the watcher's buffered input channel
  stopped,       \* cacheWatcher.stopped
  closeCount,    \* how many times the input channel was closed
  stopCalls,     \* how many times the registry invoked the stop callback
  sendOnClosed,  \* a send hit a closed input channel (panic)
  bookmarkAfter, \* bookmarkAfterResourceVersion
  sent,          \* history: every event put on the input channel
  offered,       \* history: the revisions of the events other than Bookmarks that
                 \* were dispatched with the watcher in watchersBuffer
  forceClosed,   \* history: the watchers the blocking pass gave up on
  processed,     \* history: type and revision of every event dispatchEvents
                 \* has recorded in lastProcessedResourceVersion
  \* ---- processing task of each watcher ----
  wpc,           \* "none" | "live" | "done"
  lastDeliveredRV,
  delivered,     \* events sent on the client-facing result channel
  resultClosed,  \* how many times the result channel was closed
  baseRV,        \* history: watch-cache revision at registration
  \* ---- Get / GetList caller ----
  gpc,           \* position of the reader
  greq,          \* its request
  gres,          \* its last result
  \* ---- Delete / GuaranteedUpdate caller ----
  mut            \* position, request, error of GetByKey, hint read from the
                 \* cache, result, and the history of the calls to the storage

wcVars == <<wcRV, listRV, ring, store, wcWriter, wcWriterPending, wcReaders, log>>
reflVars == <<rpc, successfulList, pendingEvent>>
readyVars == <<readyState, generation, cacherStopped, stopCh, spc>>
regVars == <<watcherIdx, allWatchers, valueWatchers, bookmarkWatchers>>
dispVars == <<dispatching, watchersBuffer, blockedWatchers, watchersToStop,
              expiredBookmarkWatchers, dpc, curEvent, bidx,
              lastProcessedRV, processed, bookmarkTicks>>
callVars == <<pc, opts, readyGen, interval, startRV, handle>>
retVars == <<werr, storageRV>>
watcherVars == <<widx, input, stopped, closeCount, stopCalls, sendOnClosed,
                 bookmarkAfter, sent, offered>>
taskVars == <<wpc, lastDeliveredRV, delivered, resultClosed, baseRV>>
getVars == <<gpc, greq, gres, mut>>

vars == <<wcVars, reflVars, readyVars, cacherLock, regVars, incoming, dispVars,
          callVars, retVars, watcherVars, forceClosed, taskVars, getVars>>

(* ---------------------------- helpers --------------------------------- *)
Max(a, b) == IF a >= b THEN a ELSE b

RECURSIVE SeqMaxRV(_, _)
SeqMaxRV(s, m) == IF s = <<>> THEN m ELSE SeqMaxRV(Tail(s), Max(m, Head(s).rv))

RECURSIVE SetToSeqStr(_)
\* the elements of a set, one after the other
SetToSeqStr(S) == IF S = {} THEN <<>>
                  ELSE LET x == CHOOSE y \in S : TRUE
                       IN <<x>> \o SetToSeqStr(S \ {x})

Range(s) == {s[i] : i \in 1..Len(s)}

NoEvent == [type |-> "None", rv |-> 0, cur |-> FALSE, prev |-> FALSE]

(* ------------------------- lock holders ------------------------------- *)
Free == <<"none", 0>>
Registrant(c) == <<"W", c>>

(* ------------------------- watch cache -------------------------------- *)
NoObject == [present |-> FALSE, lab |-> FALSE]
Objects == {NoObject, [present |-> TRUE, lab |-> TRUE]}

\* the change events the backing store can emit next for the object
NextEvents ==
  IF store.present
    THEN {[type |-> "Modified", rv |-> wcRV + 1, cur |-> ~store.lab, prev |-> store.lab],
          [type |-> "Deleted", rv |-> wcRV + 1, cur |-> FALSE, prev |-> store.lab]}
    ELSE {[type |-> "Added", rv |-> wcRV + 1, cur |-> TRUE, prev |-> FALSE]}

\* current state after an event
ApplyEvent(e) == IF e.type = "Deleted" THEN NoObject
                 ELSE [present |-> TRUE, lab |-> e.cur]

\* append to the ring, evicting the oldest event when it is full
RingAppend(r, e) == IF Len(r) >= RingCap THEN Append(Tail(r), e) ELSE Append(r, e)

\* oldest revision a replay can start after
OldestRV == IF Len(ring) < RingCap THEN listRV + 1 ELSE ring[1].rv

\* IntervalSince(rv) fails with TooOldResourceVersion
TooOld(rv) == rv + 1 < OldestRV

\* IntervalSince(rv): the ring events with a revision above rv
IntervalSince(rv) == SelectSeq(ring, LAMBDA e : e.rv > rv)

\* IntervalFromStore(): one Added per current-state entry at the current revision
IntervalFromStore ==
  IF store.present
    THEN <<[type |-> "Added", rv |-> wcRV, cur |-> store.lab, prev |-> FALSE]>>
    ELSE <<>>

NoReaders == \A c \in Clients : wcReaders[c] = 0

\* RWMutex.RLock can be granted: no writer holds the lock or waits for it
CanRLock == ~wcWriter /\ ~wcWriterPending

\* what a list of the backing store can return when the cache is at wcRV
ListResults ==
  {[rv |-> Max(1, wcRV), obj |-> o] :
      o \in (IF wcRV = 0 THEN Objects ELSE {store})}
  \cup (IF wcRV >= 1 /\ wcRV < MaxRV
          THEN {[rv |-> wcRV + 1, obj |-> o] : o \in Objects}
          ELSE {})

(* ------------------------- readiness gate ----------------------------- *)
\* ready.set(true): Pending -> Ready, a new generation
ReadySetTrue ==
  IF readyState = "Pending"
    THEN readyState' = "Ready" /\ generation' = generation + 1
         /\ UNCHANGED <<cacherStopped, stopCh, spc>>
    ELSE UNCHANGED readyVars

\* ready.set(false): Ready -> Pending
ReadySetFalse ==
  IF readyState = "Ready"
    THEN readyState' = "Pending"
         /\ UNCHANGED <<generation, cacherStopped, stopCh, spc>>
    ELSE UNCHANGED readyVars

\* ready.check() and the ok of ready.checkAndReadGeneration()
ReadyCheck == readyState = "Ready"

(* ------------------------- registry ----------------------------------- *)
\* the object of the model lives in namespace "ns" under the name "n" and its
\* trigger function yields "v"
EventNamespace == "ns"
EventName == "n"
\* the trigger function (indexerFunc) reads the label of the object
TriggerOf(lab) == IF lab THEN "v" ELSE "u"
Scopes == {<<"", "">>, <<"ns", "">>, <<"", "n">>, <<"ns", "n">>, <<"other", "">>}
TriggerValues == {"v", "u"}
\* Cacher.indexedTrigger is configured
HasIndexedTrigger == TRUE

\* all orders in which a Go map of watchers can be ranged over
Orderings(wm) ==
  LET n == Cardinality(wm)
  IN {[i \in 1..n |-> f[i][2]] :
        f \in {g \in [1..n -> wm] : \A i, j \in 1..n : i # j => g[i] # g[j]}}

\* an addWatcher that files every watcher under number 0
WmAddFirst(wm, w, number) == {p \in wm : p[1] # 0} \cup {<<0, w>>}

\* watchersMap.addWatcher
WmAdd(wm, w, number) == {p \in wm : p[1] # number} \cup {<<number, w>>}

\* a deleteWatcher that calls done and leaves the entry in the map
WmDeleteKeeps(wm, number) == wm

\* watchersMap.deleteWatcher: the map afterwards
WmDelete(wm, number) == {p \in wm : p[1] # number}

\* watchersMap.deleteWatcher: the watchers handed to the done callback
WmDeleteDone(wm, number) == {p \in wm : p[1] = number}

\* every <<number, watcher>> entry of the registry
RegistryEntries ==
  UNION {allWatchers[s] : s \in Scopes} \cup UNION {valueWatchers[v] : v \in TriggerValues}

Registered(w) == \E p \in RegistryEntries : p[2] = w

RECURSIVE EntriesSeq(_)
EntriesSeq(S) == IF S = {} THEN <<>>
                 ELSE LET p == CHOOSE q \in S : \A r \in S : q[1] <= r[1]
                      IN <<p[2]>> \o EntriesSeq(S \ {p})

Count(ws, w) == Cardinality({i \in 1..Len(ws) : ws[i] = w})

(* ------------------------- stopping watchers -------------------------- *)
\* a stopWatcherLocked that stops at once, whatever the dispatcher does
StopNeverDeferred == FALSE

\* stopWatcherLocked defers the stop while an event is being dispatched
StopIsDeferred == dispatching

\* cacheWatcher.stopLocked on every watcher of ws: the input channel is closed
\* the first time only
StopLockedAll(ws) ==
  /\ stopped' = [c \in Clients |-> stopped[c] \/ c \in Range(ws)]
  /\ closeCount' = [c \in Clients |->
                      IF c \in Range(ws) /\ ~stopped[c] THEN closeCount[c] + 1
                      ELSE closeCount[c]]

\* the registry's done callback (Cacher.stopWatcherLocked) invoked on each of ws
StopWatcherLockedAll(ws) ==
  /\ stopCalls' = [c \in Clients |-> stopCalls[c] + Count(ws, c)]
  /\ IF StopIsDeferred
       THEN /\ watchersToStop' = watchersToStop \o ws
            /\ UNCHANGED <<stopped, closeCount>>
       ELSE /\ StopLockedAll(ws)
            /\ UNCHANGED watchersToStop

(* ------------------------- initial state ------------------------------ *)
NoOpts == [rv |-> 0, rvStr |-> "", sie |-> "nil", sieAsked |-> "nil", gate |-> TRUE,
           bm |-> FALSE, filt |-> "all", scope |-> <<"", "">>, trig |-> ""]
NoRequest == [kind |-> "none", rvSet |-> FALSE, rv |-> 0, recursive |-> FALSE,
              ignoreNotFound |-> FALSE, continue |-> FALSE, limit |-> 0,
              match |-> "", paging |-> TRUE]
NoResult == [kind |-> "none", found |-> FALSE, at |-> 0, hasRV |-> FALSE, rv |-> 0,
             err |-> "nil"]

\* a cached object handed to the storage as the base of an update, or none
NoHint == [given |-> FALSE, obj |-> NoObject]

Init ==
  /\ wcRV = 0 /\ listRV = 0 /\ ring = <<>> /\ store = NoObject
  /\ wcWriter = FALSE /\ wcWriterPending = FALSE
  /\ wcReaders = [c \in Clients |-> 0] /\ log = <<>>
  /\ rpc = "start" /\ successfulList = FALSE /\ pendingEvent = NoEvent
  /\ readyState = "Pending" /\ generation = 0 /\ cacherStopped = FALSE
  /\ stopCh = 0 /\ spc = [k \in StopCallers |-> "idle"]
  /\ cacherLock = Free /\ watcherIdx = 0
  /\ allWatchers = [s \in Scopes |-> {}]
  /\ valueWatchers = [v \in TriggerValues |-> {}]
  /\ incoming = <<>> /\ dispatching = FALSE
  /\ watchersBuffer = <<>> /\ blockedWatchers = <<>> /\ watchersToStop = <<>>
  /\ bookmarkWatchers = [c \in Clients |-> 0]
  /\ expiredBookmarkWatchers = <<>>
  /\ dpc = "idle" /\ curEvent = NoEvent /\ bidx = 0
  /\ lastProcessedRV = 0 /\ bookmarkTicks = 0
  /\ pc = [c \in Clients |-> "idle"] /\ opts = [c \in Clients |-> NoOpts]
  /\ readyGen = [c \in Clients |-> 0] /\ interval = [c \in Clients |-> <<>>]
  /\ startRV = [c \in Clients |-> 0] /\ handle = [c \in Clients |-> "none"]
  /\ werr = [c \in Clients |-> "nil"] /\ storageRV = [c \in Clients |-> 0]
  /\ widx = [c \in Clients |-> -1] /\ input = [c \in Clients |-> <<>>]
  /\ stopped = [c \in Clients |-> FALSE] /\ closeCount = [c \in Clients |-> 0]
  /\ stopCalls = [c \in Clients |-> 0] /\ sendOnClosed = FALSE
  /\ bookmarkAfter = [c \in Clients |-> 0] /\ sent = [c \in Clients |-> <<>>]
  /\ offered = [c \in Clients |-> {}]
  /\ forceClosed = {} /\ processed = <<>>
  /\ wpc = [c \in Clients |-> "none"] /\ lastDeliveredRV = [c \in Clients |-> 0]
  /\ delivered = [c \in Clients |-> <<>>] /\ resultClosed = [c \in Clients |-> 0]
  /\ baseRV = [c \in Clients |-> 0]
  /\ gpc = "idle" /\ greq = NoRequest /\ gres = NoResult
  /\ mut = [pc |-> "idle", req |-> [kind |-> "none", suggestion |-> NoHint],
            err |-> FALSE, hint |-> NoHint,
            res |-> "none", calls |-> <<>>]

(* ------------------------- reflector ---------------------------------- *)
\* a startCaching that lists again without terminating the watchers
TerminateAllWatchersSkip ==
  /\ rpc = "start" /\ rpc' = "list"
  /\ UNCHANGED <<wcVars, successfulList, pendingEvent, readyVars, cacherLock,
                 regVars, incoming, dispVars, callVars, watcherVars, taskVars,
                 getVars, retVars, forceClosed>>

\* wait.Until calls startCaching unless the cacher is stopped; startCaching calls
\* terminateAllWatchers: under the cacher lock, indexedWatchers.terminateAll
\* stops every registered watcher and empties both maps
TerminateAllWatchers ==
  /\ rpc = "start" /\ ~cacherStopped /\ cacherLock = Free
  /\ StopWatcherLockedAll(EntriesSeq(RegistryEntries))
  /\ allWatchers' = [s \in Scopes |-> {}]
  /\ valueWatchers' = [v \in TriggerValues |-> {}]
  /\ rpc' = "list"
  /\ UNCHANGED <<wcVars, successfulList, pendingEvent, readyVars, cacherLock,
                 watcherIdx, bookmarkWatchers, incoming, dispatching, watchersBuffer,
                 blockedWatchers, expiredBookmarkWatchers, dpc, curEvent, bidx,
                 lastProcessedRV, processed, bookmarkTicks, callVars, widx, input,
                 sendOnClosed, bookmarkAfter, taskVars, sent, offered, getVars, retVars,
                 forceClosed>>

\* ListAndWatch lists the store and calls watchCache.Replace, which asks for the
\* write lock
ReplaceRequest ==
  /\ rpc = "list"
  /\ wcWriterPending' = TRUE /\ rpc' = "replace"
  /\ UNCHANGED <<wcRV, listRV, ring, store, wcWriter, wcReaders, log, successfulList,
                 pendingEvent, readyVars, cacherLock, regVars, incoming, dispVars,
                 callVars, watcherVars, taskVars, getVars, retVars, forceClosed>>

\* Replace(snapshot, rv) under the write lock; the OnReplace hook of startCaching
\* records the successful list and sets the gate ready
Replace ==
  /\ rpc = "replace" /\ NoReaders
  /\ \E r \in ListResults :
       /\ store' = r.obj /\ wcRV' = r.rv /\ listRV' = r.rv
  /\ ring' = <<>> /\ log' = <<>>
  /\ successfulList' = TRUE
  /\ ReadySetTrue
  /\ wcWriterPending' = FALSE /\ rpc' = "watch"
  /\ UNCHANGED <<wcWriter, wcReaders, pendingEvent, cacherLock, regVars, incoming,
                 dispVars, callVars, watcherVars, taskVars, getVars, retVars,
                 forceClosed>>

\* the reflector's watch received a change: watchCache.processEvent asks for the
\* write lock
AssimilateRequest ==
  /\ rpc = "watch" /\ wcRV < MaxRV
  /\ wcWriterPending' = TRUE /\ rpc' = "assimilate"
  /\ UNCHANGED <<wcRV, listRV, ring, store, wcWriter, wcReaders, log, successfulList,
                 pendingEvent, readyVars, cacherLock, regVars, incoming, dispVars,
                 callVars, watcherVars, taskVars, getVars, retVars, forceClosed>>

\* Assimilate(event) under the write lock; the lock is kept while the event is
\* handed to Cacher.processEvent (cacher.go, comment in Watch)
Assimilate ==
  /\ rpc = "assimilate" /\ NoReaders
  /\ \E e \in NextEvents :
       /\ ring' = RingAppend(ring, e)
       /\ log' = Append(log, e)
       /\ store' = ApplyEvent(e)
       /\ wcRV' = e.rv
       /\ pendingEvent' = e
  /\ wcWriterPending' = FALSE /\ wcWriter' = TRUE /\ rpc' = "push"
  /\ UNCHANGED <<listRV, wcReaders, successfulList, readyVars, cacherLock, regVars,
                 incoming, dispVars, callVars, watcherVars, taskVars, getVars, retVars,
                 forceClosed>>

\* a processEvent that gives the event up when the incoming channel is full
ProcessEventLossy ==
  /\ rpc = "push"
  /\ incoming' = IF Len(incoming) < IncomingCap THEN Append(incoming, pendingEvent)
                 ELSE incoming
  /\ pendingEvent' = NoEvent
  /\ wcWriter' = FALSE /\ rpc' = "watch"
  /\ UNCHANGED <<wcRV, listRV, ring, store, wcWriterPending, wcReaders, log,
                 successfulList, readyVars, cacherLock, regVars, dispVars, callVars,
                 watcherVars, taskVars, getVars, retVars, forceClosed>>

\* Cacher.processEvent: a blocking send on the incoming channel; the watch cache
\* then releases its write lock
ProcessEvent ==
  /\ rpc = "push" /\ Len(incoming) < IncomingCap
  /\ incoming' = Append(incoming, pendingEvent)
  /\ pendingEvent' = NoEvent
  /\ wcWriter' = FALSE /\ rpc' = "watch"
  /\ UNCHANGED <<wcRV, listRV, ring, store, wcWriterPending, wcReaders, log,
                 successfulList, readyVars, cacherLock, regVars, dispVars, callVars,
                 watcherVars, taskVars, getVars, retVars, forceClosed>>

\* the reflector's watch (opened with ProgressNotify) received a progress
\* notification instead of a change: watchCache.UpdateResourceVersion sets the
\* revision under the write lock, releases the lock and hands a Bookmark to
\* Cacher.processEvent (the storage has moved on by one revision, taken by
\* another resource)
UpdateResourceVersion ==
  /\ rpc = "assimilate" /\ NoReaders
  /\ wcRV' = wcRV + 1
  /\ pendingEvent' = [type |-> "Bookmark", rv |-> wcRV + 1, cur |-> FALSE,
                      prev |-> FALSE]
  /\ wcWriterPending' = FALSE /\ rpc' = "push"
  /\ UNCHANGED <<listRV, ring, store, wcWriter, wcReaders, log, successfulList,
                 readyVars, cacherLock, regVars, incoming, dispVars, callVars,
                 watcherVars, taskVars, getVars, retVars, forceClosed>>

\* ListAndWatch returns (a disconnect): the deferred function of startCaching
\* sets the gate not ready after a successful list, and wait.Until calls
\* startCaching again
Disconnect ==
  /\ rpc = "watch" /\ generation < MaxGen
  /\ IF successfulList THEN ReadySetFalse ELSE UNCHANGED readyVars
  /\ successfulList' = FALSE /\ rpc' = "start"
  /\ UNCHANGED <<wcVars, pendingEvent, cacherLock, regVars, incoming, dispVars,
                 callVars, watcherVars, taskVars, getVars, retVars, forceClosed>>

\* a Stop that leaves the readiness gate as it is
StopKeepsGate(k) ==
  /\ spc[k] = "idle"
  /\ IF cacherStopped
       THEN spc' = [spc EXCEPT ![k] = "returned"] /\ UNCHANGED cacherStopped
       ELSE cacherStopped' = TRUE /\ spc' = [spc EXCEPT ![k] = "close"]
  /\ UNCHANGED <<wcVars, reflVars, readyState, generation, stopCh, cacherLock,
                 regVars, incoming, dispVars, callVars, watcherVars, taskVars,
                 getVars, retVars, forceClosed>>

\* a Stop that does not look at Cacher.stopped
StopUnguarded(k) ==
  /\ spc[k] = "idle"
  /\ cacherStopped' = TRUE /\ readyState' = "Stopped"
  /\ spc' = [spc EXCEPT ![k] = "close"]
  /\ UNCHANGED <<wcVars, reflVars, generation, stopCh, cacherLock, regVars,
                 incoming, dispVars, callVars, watcherVars, taskVars, getVars,
                 retVars, forceClosed>>

\* Stop under stopLock: a call that finds the cacher stopped returns; the first
\* call sets stopped and stops the readiness gate, which fails every waiter
Stop(k) ==
  /\ spc[k] = "idle"
  /\ IF cacherStopped
       THEN /\ spc' = [spc EXCEPT ![k] = "returned"]
            /\ UNCHANGED <<readyState, cacherStopped>>
       ELSE /\ cacherStopped' = TRUE /\ readyState' = "Stopped"
            /\ spc' = [spc EXCEPT ![k] = "close"]
  /\ UNCHANGED <<wcVars, reflVars, generation, stopCh, cacherLock, regVars,
                 incoming, dispVars, callVars, watcherVars, taskVars, getVars,
                 retVars, forceClosed>>

\* Stop after stopLock is released: close(c.stopCh)
StopClose(k) ==
  /\ spc[k] = "close"
  /\ stopCh' = stopCh + 1
  /\ spc' = [spc EXCEPT ![k] = "wait"]
  /\ UNCHANGED <<wcVars, reflVars, readyState, generation, cacherStopped,
                 cacherLock, regVars, incoming, dispVars, callVars, watcherVars,
                 taskVars, getVars, retVars, forceClosed>>

\* c.stopWg.Wait() returns: the goroutine around startCaching has ended
StopReturn(k) ==
  /\ spc[k] = "wait" /\ rpc = "exited"
  /\ spc' = [spc EXCEPT ![k] = "returned"]
  /\ UNCHANGED <<wcVars, reflVars, readyState, generation, cacherStopped, stopCh,
                 cacherLock, regVars, incoming, dispVars, callVars, watcherVars,
                 taskVars, getVars, retVars, forceClosed>>

\* ListAndWatch returns because stopCh is closed; the deferred function of
\* startCaching runs
ListAndWatchStopped ==
  /\ rpc \in {"list", "watch"} /\ stopCh > 0
  /\ IF successfulList THEN ReadySetFalse ELSE UNCHANGED readyVars
  /\ successfulList' = FALSE /\ rpc' = "start"
  /\ UNCHANGED <<wcVars, pendingEvent, cacherLock, regVars, incoming, dispVars,
                 callVars, watcherVars, taskVars, getVars, retVars, forceClosed>>

\* wait.Until returns because stopCh is closed: the deferred terminateAllWatchers
\* runs under the cacher lock, then stopWg.Done
ReflectorExit ==
  /\ rpc = "start" /\ stopCh > 0 /\ cacherLock = Free
  /\ StopWatcherLockedAll(EntriesSeq(RegistryEntries))
  /\ allWatchers' = [s \in Scopes |-> {}]
  /\ valueWatchers' = [v \in TriggerValues |-> {}]
  /\ rpc' = "exited"
  /\ UNCHANGED <<wcVars, successfulList, pendingEvent, readyVars, cacherLock,
                 watcherIdx, bookmarkWatchers, incoming, dispatching, watchersBuffer,
                 blockedWatchers, expiredBookmarkWatchers, dpc, curEvent, bidx,
                 lastProcessedRV, processed, bookmarkTicks, callVars, widx, input,
                 sendOnClosed, bookmarkAfter, taskVars, sent, offered, getVars, retVars,
                 forceClosed>>

\* dispatchEvents, case <-c.stopCh: the loop ends
DispatcherExit ==
  /\ dpc = "idle" /\ stopCh > 0
  /\ dpc' = "exited"
  /\ UNCHANGED <<wcVars, reflVars, readyVars, cacherLock, regVars, incoming,
                 dispatching, watchersBuffer, blockedWatchers, watchersToStop,
                 expiredBookmarkWatchers, curEvent, bidx, lastProcessedRV,
                 processed, bookmarkTicks, callVars, watcherVars, taskVars,
                 getVars, retVars, forceClosed>>

(* ------------------------- dispatcher --------------------------------- *)
\* a bookmark announcing the revision after the last processed one
BookmarkEventAhead(rv) == [type |-> "Bookmark", rv |-> rv + 1, cur |-> FALSE, prev |-> FALSE]

\* a bookmark announcing the revision before the last processed one
BookmarkEventStale(rv) == [type |-> "Bookmark", rv |-> rv - 1, cur |-> FALSE, prev |-> FALSE]

BookmarkEvent(rv) == [type |-> "Bookmark", rv |-> rv, cur |-> FALSE, prev |-> FALSE]

\* triggerValuesThreadUnsafe: the values of the event and whether they are known
TriggerSupported == HasIndexedTrigger
\* a trigger index consulted for the current object only
TriggerValuesOfCurrent(e) ==
  {IF e.type = "Deleted" THEN TriggerOf(e.prev) ELSE TriggerOf(e.cur)}

\* the value of the object of the event and, when it differs, of its previous
\* object (a Deleted event carries the deleted object)
TriggerValuesOf(e) ==
  IF ~HasIndexedTrigger THEN {}
  ELSE {IF e.type = "Deleted" THEN TriggerOf(e.prev) ELSE TriggerOf(e.cur)}
         \cup (IF e.type = "Added" THEN {} ELSE {TriggerOf(e.prev)})

\* the namespace/name tuples startDispatching looks up, in its order
ScopeLookups ==
  (IF EventNamespace # ""
     THEN (IF EventName # "" THEN <<<<EventNamespace, EventName>>>> ELSE <<>>)
          \o <<<<EventNamespace, "">>>>
     ELSE <<>>)
  \o (IF EventName # "" THEN <<<<"", EventName>>>> ELSE <<>>)
  \o <<<<"", "">>>>

\* a lookup of the value of the object and of the previous object, whether or
\* not the two values differ
ValueLookupsBoth(e) ==
  <<IF e.type = "Deleted" THEN TriggerOf(e.prev) ELSE TriggerOf(e.cur)>>
    \o (IF e.type = "Added" THEN <<>> ELSE <<TriggerOf(e.prev)>>)

\* the value-watcher maps startDispatching ranges over
ValueLookups(e) ==
  IF TriggerSupported
    THEN SetToSeqStr(TriggerValuesOf(e))
    ELSE SetToSeqStr(TriggerValues)

RECURSIVE ConcatOrderings(_)
\* every way of ranging over the maps of ms one after the other
ConcatOrderings(ms) ==
  IF ms = <<>> THEN {<<>>}
  ELSE {a \o b : a \in Orderings(Head(ms)), b \in ConcatOrderings(Tail(ms))}

\* the contents watchersBuffer can get for a non-bookmark event
CandidateBuffers(e) ==
  ConcatOrderings([i \in 1..Len(ScopeLookups) |-> allWatchers[ScopeLookups[i]]]
                  \o [i \in 1..Len(ValueLookups(e)) |-> valueWatchers[ValueLookups(e)[i]]])

\* the event dispatchEvents receives next from the incoming channel
IncomingHead == Head(incoming)

\* what the history keeps of an event whose revision was recorded
Recorded(e) == [type |-> e.type, rv |-> e.rv]

RECURSIVE Repeat(_, _)
Repeat(w, n) == IF n = 0 THEN <<>> ELSE <<w>> \o Repeat(w, n - 1)

\* what the history keeps of an event put on a channel
Sent(e) == [type |-> e.type, rv |-> e.rv]

\* a dispatch without non-blocking pass: every watcher is left to the blocking
\* add, in the order of the buffer
NonblockingPassNone(buf, e, inp, blk, bad) == [inp |-> inp, blk |-> buf, bad |-> bad]

RECURSIVE NonblockingPassAbort(_, _, _, _, _)
\* a non-blocking pass that ends at the first watcher whose channel is full
NonblockingPassAbort(buf, e, inp, blk, bad) ==
  IF buf = <<>> THEN [inp |-> inp, blk |-> blk, bad |-> bad]
  ELSE LET w == Head(buf)
       IN IF closeCount[w] > 0
            THEN NonblockingPassAbort(Tail(buf), e, inp, blk, TRUE)
            ELSE IF Len(inp[w]) < ChanSize
                   THEN NonblockingPassAbort(Tail(buf), e,
                                             [inp EXCEPT ![w] = Append(@, e)], blk, bad)
                   ELSE [inp |-> inp, blk |-> Append(blk, w), bad |-> bad]

RECURSIVE NonblockingPass(_, _, _, _, _)
\* watcher.nonblockingAdd(e) on each watcher of buf in turn: the input channels
\* afterwards, the watchers whose channel was full, and whether a send hit a
\* closed channel
NonblockingPass(buf, e, inp, blk, bad) ==
  IF buf = <<>> THEN [inp |-> inp, blk |-> blk, bad |-> bad]
  ELSE LET w == Head(buf)
       IN IF closeCount[w] > 0
            THEN NonblockingPass(Tail(buf), e, inp, blk, TRUE)
            ELSE IF Len(inp[w]) < ChanSize
                   THEN NonblockingPass(Tail(buf), e,
                                        [inp EXCEPT ![w] = Append(@, e)], blk, bad)
                   ELSE NonblockingPass(Tail(buf), e, inp, Append(blk, w), bad)

\* a dispatch that offers every event with nonblockingAdd only
NonblockingAlways(e) == TRUE

\* a dispatch that retries every event with the blocking add
NonblockingNever(e) == FALSE

\* dispatchEvent: a Bookmark is offered with nonblockingAdd only
NonblockingOnly(e) == e.type = "Bookmark"

\* dispatchEvent(e) from startDispatching to the end of the non-blocking pass,
\* with buf what startDispatching put into watchersBuffer under the cacher lock.
\* A Bookmark is offered in this pass only; for another event the watchers whose
\* channel was full are left to the blocking pass
DispatchTo(e, buf) ==
  LET r == NonblockingPass(buf, e, input, <<>>, sendOnClosed)
  IN /\ cacherLock = Free
     /\ dispatching' = TRUE
     /\ curEvent' = e
     /\ watchersBuffer' = buf
     /\ input' = r.inp
     /\ sent' = [c \in Clients |->
                   sent[c] \o Repeat(Sent(e), Len(r.inp[c]) - Len(input[c]))]
     /\ offered' = [c \in Clients |->
                      IF e.type # "Bookmark" /\ c \in Range(buf)
                        THEN offered[c] \cup {e.rv} ELSE offered[c]]
     /\ sendOnClosed' = r.bad
     /\ blockedWatchers' = IF NonblockingOnly(e) THEN <<>> ELSE r.blk
     /\ IF NonblockingOnly(e) \/ r.blk = <<>>
          THEN dpc' = "finish" /\ bidx' = 0
          ELSE dpc' = "blocking" /\ bidx' = 1

\* a dispatcher that passes every event of the incoming channel on
DispatchedAlways(e) == TRUE

\* dispatchEvents: events of the incoming channel other than Bookmarks are
\* handed to dispatchEvent
Dispatched(e) == e.type # "Bookmark"

\* dispatchEvents, case event := <-c.incoming: dispatchEvent up to the end of
\* the non-blocking pass. A Bookmark of the storage is not dispatched further
\* ("to avoid more aggressive bookmarks"), its revision is recorded all the same
DispatchEvent ==
  /\ dpc = "idle" /\ incoming # <<>>
  /\ incoming' = Tail(incoming)
  /\ IF ~Dispatched(IncomingHead)
       THEN /\ lastProcessedRV' = IncomingHead.rv
            /\ processed' = Append(processed, Recorded(IncomingHead))
            /\ UNCHANGED <<dispatching, watchersBuffer, blockedWatchers, dpc,
                           curEvent, bidx, input, sent, offered, sendOnClosed>>
       ELSE /\ \E buf \in CandidateBuffers(IncomingHead) :
                 DispatchTo(IncomingHead, buf)
            /\ UNCHANGED <<lastProcessedRV, processed>>
  /\ UNCHANGED <<wcVars, reflVars, readyVars, cacherLock, regVars, watchersToStop,
                 expiredBookmarkWatchers, bookmarkTicks, callVars,
                 widx, stopped, closeCount, stopCalls, bookmarkAfter, taskVars,
                 getVars, retVars, forceClosed>>

\* watcherBookmarkTimeBuckets.popExpiredWatchers: the watchers whose bucket time
\* has come (any of the queued ones, as time is not modelled)
ExpiredSets == SUBSET {c \in Clients : bookmarkWatchers[c] > 0} \ {{}}

RECURSIVE PoppedSeq(_)
PoppedSeq(S) == IF S = {} THEN <<>>
                ELSE LET w == CHOOSE x \in S : \A y \in S : x <= y
                     IN Repeat(w, bookmarkWatchers[w]) \o PoppedSeq(S \ {w})

\* a bookmark dispatch that takes every popped watcher, stopped or not
BookmarkBufferPopped(S) == PoppedSeq(S)

\* a bookmark dispatch that takes every registered watcher
BookmarkBufferRegistered(S) == EntriesSeq(RegistryEntries)

\* startDispatchingBookmarkEventsLocked: the popped watchers that are not stopped
BookmarkBuffer(S) == SelectSeq(PoppedSeq(S), LAMBDA w : ~stopped[w])

\* a dispatcher that announces a revision on every tick
AlwaysProcessed == FALSE

\* lastProcessedResourceVersion == 0: nothing to announce yet
NothingProcessed == lastProcessedRV = 0

\* dispatchEvents, case <-bookmarkTimer.C with expired watchers queued: without a
\* processed revision they are popped and dropped; otherwise a Bookmark at
\* lastProcessedResourceVersion is dispatched to them
BookmarkTick ==
  /\ dpc = "idle"
  /\ \E S \in ExpiredSets :
       /\ bookmarkWatchers' = [c \in Clients |->
                                 IF c \in S THEN 0 ELSE bookmarkWatchers[c]]
       /\ IF NothingProcessed
            THEN UNCHANGED <<dispatching, watchersBuffer, blockedWatchers,
                             expiredBookmarkWatchers, dpc, curEvent, bidx,
                             bookmarkTicks, input, sent, offered, sendOnClosed>>
            ELSE /\ bookmarkTicks < MaxBookmarks
                 /\ bookmarkTicks' = bookmarkTicks + 1
                 /\ expiredBookmarkWatchers' =
                      expiredBookmarkWatchers \o BookmarkBuffer(S)
                 /\ DispatchTo(BookmarkEvent(lastProcessedRV), BookmarkBuffer(S))
  /\ UNCHANGED <<wcVars, reflVars, readyVars, cacherLock, watcherIdx, allWatchers,
                 valueWatchers, incoming, watchersToStop, lastProcessedRV, processed, callVars,
                 widx, stopped, closeCount, stopCalls, bookmarkAfter, taskVars,
                 getVars, retVars, forceClosed>>

\* the watcher the blocking pass is at
BlockedWatcher == blockedWatchers[bidx]

\* the blocking pass moves to its next watcher, or ends
AdvanceBlocking ==
  /\ bidx' = IF bidx + 1 > Len(blockedWatchers) THEN 0 ELSE bidx + 1
  /\ dpc' = IF bidx + 1 > Len(blockedWatchers) THEN "finish" ELSE "blocking"

\* watcher.add(event, timer): the send succeeds, at once or before the timer
AddSend ==
  /\ dpc = "blocking"
  /\ IF closeCount[BlockedWatcher] > 0
       THEN sendOnClosed' = TRUE /\ UNCHANGED <<input, sent>>
       ELSE /\ Len(input[BlockedWatcher]) < ChanSize
            /\ input' = [input EXCEPT ![BlockedWatcher] = Append(@, curEvent)]
            /\ sent' = [sent EXCEPT ![BlockedWatcher] = Append(@, Sent(curEvent))]
            /\ UNCHANGED sendOnClosed
  /\ AdvanceBlocking
  /\ UNCHANGED <<wcVars, reflVars, readyVars, cacherLock, regVars, incoming,
                 dispatching, watchersBuffer, blockedWatchers, watchersToStop,
                 expiredBookmarkWatchers, curEvent, lastProcessedRV, processed, bookmarkTicks,
                 callVars, widx, stopped, closeCount, stopCalls, bookmarkAfter,
                 taskVars, getVars, retVars, forceClosed, offered>>

(* ------------------------- forget ------------------------------------- *)
\* a forgetWatcher that never looks in the trigger index
ForgetUnsupported(w) == FALSE

\* the coordinates forgetWatcher captured at registration
ForgetSupported(w) == opts[w].trig # ""
ForgetMap(w) == IF ForgetSupported(w) THEN valueWatchers[opts[w].trig]
                ELSE allWatchers[opts[w].scope]

\* the closure returned by forgetWatcher, under the cacher lock:
\* indexedWatchers.deleteWatcher with stopWatcherLocked as the callback
ForgetLocked(w) ==
  /\ IF ForgetSupported(w)
       THEN /\ valueWatchers' = [valueWatchers EXCEPT
                                   ![opts[w].trig] = WmDelete(@, widx[w])]
            /\ UNCHANGED allWatchers
       ELSE /\ allWatchers' = [allWatchers EXCEPT
                                 ![opts[w].scope] = WmDelete(@, widx[w])]
            /\ UNCHANGED valueWatchers
  /\ StopWatcherLockedAll(EntriesSeq(WmDeleteDone(ForgetMap(w), widx[w])))

\* an add without timer: it waits until the channel has room
AddWaitsForever == FALSE /\ UNCHANGED vars

\* an add that gives up on the watcher when the timer fires and leaves it alone
AddTimeoutSkip ==
  /\ dpc = "blocking"
  /\ closeCount[BlockedWatcher] = 0
  /\ Len(input[BlockedWatcher]) >= ChanSize
  /\ AdvanceBlocking
  /\ UNCHANGED <<wcVars, reflVars, readyVars, cacherLock, regVars, incoming,
                 dispatching, watchersBuffer, blockedWatchers, watchersToStop,
                 expiredBookmarkWatchers, curEvent, lastProcessedRV, processed, bookmarkTicks,
                 callVars, watcherVars, taskVars, getVars, retVars, forceClosed>>

\* watcher.add(event, timer): the channel is still full when the timer fires, or
\* the timer had fired for an earlier watcher (timer == nil): closeFunc calls
\* forget(false), which removes the watcher under the cacher lock
AddTimeout ==
  /\ dpc = "blocking"
  /\ closeCount[BlockedWatcher] = 0
  /\ Len(input[BlockedWatcher]) >= ChanSize
  /\ cacherLock = Free
  /\ ForgetLocked(BlockedWatcher)
  /\ forceClosed' = forceClosed \cup {BlockedWatcher}
  /\ AdvanceBlocking
  /\ UNCHANGED <<wcVars, reflVars, readyVars, cacherLock, watcherIdx,
                 bookmarkWatchers, incoming, dispatching, watchersBuffer,
                 blockedWatchers, expiredBookmarkWatchers, curEvent,
                 lastProcessedRV, processed, bookmarkTicks, callVars, widx, input,
                 sendOnClosed, bookmarkAfter, taskVars, sent, offered, getVars, retVars>>

\* finishDispatching under the cacher lock: the flag is cleared, the deferred
\* stops are executed, the bookmark watchers that are still alive are queued
\* again; dispatchEvents then records the revision of the event. The buffers are
\* not read again before the next startDispatching refills them.
FinishDispatching ==
  /\ dpc = "finish" /\ cacherLock = Free
  /\ dispatching' = FALSE
  /\ StopLockedAll(watchersToStop)
  /\ watchersToStop' = <<>>
  /\ bookmarkWatchers' = [c \in Clients |->
                            IF stopped'[c] THEN bookmarkWatchers[c]
                            ELSE bookmarkWatchers[c] + Count(expiredBookmarkWatchers, c)]
  /\ expiredBookmarkWatchers' = <<>>
  /\ lastProcessedRV' = IF curEvent.type = "Bookmark" THEN lastProcessedRV
                        ELSE curEvent.rv
  /\ processed' = IF curEvent.type = "Bookmark" THEN processed
                  ELSE Append(processed, Recorded(curEvent))
  /\ watchersBuffer' = <<>> /\ blockedWatchers' = <<>> /\ curEvent' = NoEvent
  /\ dpc' = "idle"
  /\ UNCHANGED <<wcVars, reflVars, readyVars, cacherLock, watcherIdx, allWatchers,
                 valueWatchers, incoming, bidx, bookmarkTicks, callVars, widx,
                 input, stopCalls, sendOnClosed, bookmarkAfter, taskVars, sent, offered, getVars,
                 retVars, forceClosed>>

(* ------------------------- Watch -------------------------------------- *)
\* the Watch calls of the clients without SendInitialEvents: client 1 watches
\* everything from revision 1 or, through the trigger index, with a label
\* selector and bookmarks, from revision 2; the others watch one name from
\* revision 1
WatchOptions(c) ==
  IF c = 1
    THEN {[NoOpts EXCEPT !.rv = 1, !.rvStr = "num"],
          [NoOpts EXCEPT !.rv = 2, !.rvStr = "num", !.bm = TRUE, !.filt = "sel",
                         !.scope = <<"ns", "n">>, !.trig = "v"]}
    ELSE {[NoOpts EXCEPT !.rv = 1, !.rvStr = "num", !.scope = <<"", "n">>]}

\* the Watch calls of the clients when client 1 asks for the initial events, at
\* revision 1 or at revision MaxRV, and the others watch everything from
\* revision 1
InitialEventsOptions(c) ==
  IF c = 1
    THEN {[NoOpts EXCEPT !.rv = r, !.rvStr = "num", !.sie = "true",
                         !.sieAsked = "true", !.bm = TRUE, !.scope = <<"ns", "">>] :
            r \in {1, MaxRV}}
    ELSE {[NoOpts EXCEPT !.rv = 1, !.rvStr = "num"]}

\* Watch up to the readiness gate, called with one of the options O:
\* ready.waitAndReadGeneration
WatchGate(c, O) ==
  /\ pc[c] = "idle" /\ readyState = "Ready"
  /\ \E o \in O : opts' = [opts EXCEPT ![c] = o]
  /\ readyGen' = [readyGen EXCEPT ![c] = generation]
  /\ pc' = [pc EXCEPT ![c] = "rlock"]
  /\ UNCHANGED <<wcVars, reflVars, readyVars, cacherLock, regVars, incoming, dispVars,
                 interval, startRV, handle, watcherVars, taskVars, getVars, retVars,
                 forceClosed>>

WatchPassGate(c) == WatchGate(c, WatchOptions(c))

WatchPassGateInitialEvents(c) == WatchGate(c, InitialEventsOptions(c))

\* the function of getCommonResourceVersionLockedFunc, called under the read
\* lock: s is the revision it read from the storage when it was made, for a call
\* without revision
CommonRV(o, s) ==
  IF o.rvStr = "" THEN s
  ELSE IF o.rv = 0 THEN wcRV ELSE o.rv

\* a watch that starts from revision 0 whatever it asks for
StartWatchRVZero(o, s) == 0

\* the start revision is the requested one whatever SendInitialEvents is
StartWatchRVRequested(o, s) == o.rv

\* startWatchResourceVersionFn() of getStartResourceVersionForWatchLockedFunc
StartWatchRV(o, s) ==
  IF o.sie = "nil" \/ o.sie = "true" THEN o.rv
  ELSE CommonRV(o, s)

\* bookmarkAfterResourceVersionFn() of getBookmarkAfterResourceVersionLockedFunc
BookmarkAfterRV(o, s) ==
  IF o.sie # "true" \/ ~o.bm THEN 0
  ELSE CommonRV(o, s)

\* the errors that are API status errors: newErrWatcher keeps their status
StatusErrors == {"TooOldResourceVersion", "Timeout"}

\* an error watcher that carries no event
ErrWatcherEmpty(err) == <<>>

\* newErrWatcher: the events of the handle, one Error event that carries the
\* status of a status error and InternalError for any other error
ErrWatcher(err) ==
  <<[type |-> "Error", rv |-> 0,
     reason |-> IF err \in StatusErrors THEN err ELSE "InternalError"]>>

\* a Watch that returns the error next to the error watcher
ErrReturned(err) == err

\* the error Watch returns next to an error watcher: nil
ErrWithWatcher(err) == "nil"

\* return newErrWatcher(err), nil
ReturnErrWatcher(c, err) ==
  /\ handle' = [handle EXCEPT ![c] = "error"]
  /\ werr' = [werr EXCEPT ![c] = ErrWithWatcher(err)]
  /\ delivered' = [delivered EXCEPT ![c] = ErrWatcher(err)]
  /\ resultClosed' = [resultClosed EXCEPT ![c] = 1]

\* the Watch calls of a client that tries every shape of the options: the
\* revision is absent, malformed, 0 or a number; SendInitialEvents is asked as
\* nil, false or true and is reset to nil when the WatchList feature gate is
\* off; bookmarks are allowed or not. A watch at revision 0 that ends without
\* SendInitialEvents is left out: the watch cache serves it in a way of its own
AnyWatchOptions ==
  {[NoOpts EXCEPT !.rv = r[2], !.rvStr = r[1], !.sieAsked = a, !.gate = g,
                  !.sie = IF g THEN a ELSE "nil", !.bm = b] :
     r \in {<<"", 0>>, <<"bad", 0>>, <<"num", 0>>, <<"num", 1>>, <<"num", 2>>},
     a \in {"nil", "false", "true"}, g \in BOOLEAN, b \in BOOLEAN}
  \ {o \in [rv : {0}, rvStr : {"num"}, sie : {"nil"}, sieAsked : {"nil", "false", "true"},
            gate : BOOLEAN, bm : BOOLEAN, filt : {"all"}, scope : {<<"", "">>},
            trig : {""}] : TRUE}

\* a Watch without revision is served by the storage whatever it asks for
WatchDelegatedUnsetRV(o) == o.rvStr = ""

\* a Watch without SendInitialEvents and without revision is served by the
\* storage
WatchDelegated(o) == o.sie = "nil" /\ o.rvStr = ""

\* Watch up to the readiness gate, called with one of the options O: the feature
\* gate, the delegation to the storage and ParseResourceVersion
WatchCallWith(c, O) ==
  /\ pc[c] = "idle"
  /\ \E o \in O :
       /\ opts' = [opts EXCEPT ![c] = o]
       /\ IF WatchDelegated(o)
            THEN /\ handle' = [handle EXCEPT ![c] = "storage"]
                 /\ pc' = [pc EXCEPT ![c] = "done"]
                 /\ UNCHANGED werr
            ELSE IF o.rvStr = "bad"
            THEN /\ handle' = [handle EXCEPT ![c] = "nil"]
                 /\ werr' = [werr EXCEPT ![c] = "InvalidResourceVersion"]
                 /\ pc' = [pc EXCEPT ![c] = "done"]
            ELSE /\ pc' = [pc EXCEPT ![c] = "gate"]
                 /\ UNCHANGED <<handle, werr>>
  /\ UNCHANGED <<wcVars, reflVars, readyVars, cacherLock, regVars, incoming, dispVars,
                 readyGen, interval, startRV, storageRV, watcherVars, taskVars,
                 getVars, forceClosed>>

WatchCall(c) == WatchCallWith(c, AnyWatchOptions)

\* whether the call asks the storage for its current revision: the bookmark-after
\* function does with SendInitialEvents=true and bookmarks, the start function
\* with SendInitialEvents=false, both only for a call without revision
NeedsStorageRV(o) ==
  /\ o.rvStr = ""
  /\ (o.sie = "true" /\ o.bm) \/ o.sie = "false"

\* ready.waitAndReadGeneration and the making of the two revision functions. The
\* wait ends with an error when the cache does not get ready in time, and Watch
\* returns it. A revision asked of the storage is at least the revision of the
\* cache; when the storage fails, Watch returns an error watcher
WatchWaitReady(c) ==
  /\ pc[c] = "gate"
  /\ IF readyState # "Ready"
       THEN /\ handle' = [handle EXCEPT ![c] = "nil"]
            /\ werr' = [werr EXCEPT ![c] = "ServiceUnavailable"]
            /\ pc' = [pc EXCEPT ![c] = "done"]
            /\ UNCHANGED <<readyGen, storageRV, delivered, resultClosed>>
       ELSE /\ readyGen' = [readyGen EXCEPT ![c] = generation]
            /\ IF NeedsStorageRV(opts[c])
                 THEN \E s \in {0} \cup (wcRV..MaxRV) :
                        IF s = 0
                          THEN /\ ReturnErrWatcher(c, "StorageError")
                               /\ pc' = [pc EXCEPT ![c] = "done"]
                               /\ UNCHANGED storageRV
                          ELSE /\ storageRV' = [storageRV EXCEPT ![c] = s]
                               /\ pc' = [pc EXCEPT ![c] = "rlock"]
                               /\ UNCHANGED <<handle, werr, delivered, resultClosed>>
                 ELSE /\ pc' = [pc EXCEPT ![c] = "rlock"]
                      /\ UNCHANGED <<handle, werr, storageRV, delivered,
                                     resultClosed>>
  /\ UNCHANGED <<wcVars, reflVars, readyVars, cacherLock, regVars, incoming, dispVars,
                 opts, interval, startRV, watcherVars, wpc, lastDeliveredRV, baseRV,
                 getVars, forceClosed>>

\* a Watch whose error return from the interval computation leaves the read lock
\* of the watch cache held
WatchIntervalKeepsLock(c, forceAllEvents) ==
  /\ startRV' = [startRV EXCEPT ![c] = StartWatchRV(opts[c], storageRV[c])]
  /\ wcReaders' = [wcReaders EXCEPT ![c] = 1]
  /\ IF ~forceAllEvents /\ TooOld(StartWatchRV(opts[c], storageRV[c]))
       THEN /\ ReturnErrWatcher(c, "TooOldResourceVersion")
            /\ pc' = [pc EXCEPT ![c] = "done"]
            /\ UNCHANGED interval
       ELSE /\ interval' = [interval EXCEPT ![c] =
                              IF forceAllEvents THEN IntervalFromStore
                              ELSE IntervalSince(StartWatchRV(opts[c], storageRV[c]))]
            /\ pc' = [pc EXCEPT ![c] = "lockCacher"]
            /\ UNCHANGED <<handle, werr, delivered, resultClosed>>

\* Watch from the interval computation to the request of the cacher lock; an
\* error of the interval is returned as an error watcher, and the deferred
\* RUnlock runs
WatchInterval(c, forceAllEvents) ==
  /\ startRV' = [startRV EXCEPT ![c] = StartWatchRV(opts[c], storageRV[c])]
  /\ IF ~forceAllEvents /\ TooOld(StartWatchRV(opts[c], storageRV[c]))
       THEN /\ ReturnErrWatcher(c, "TooOldResourceVersion")
            /\ pc' = [pc EXCEPT ![c] = "done"]
            /\ wcReaders' = [wcReaders EXCEPT ![c] = 0]
            /\ UNCHANGED interval
       ELSE /\ interval' = [interval EXCEPT ![c] =
                              IF forceAllEvents THEN IntervalFromStore
                              ELSE IntervalSince(StartWatchRV(opts[c], storageRV[c]))]
            /\ pc' = [pc EXCEPT ![c] = "lockCacher"]
            /\ wcReaders' = [wcReaders EXCEPT ![c] = 1]
            /\ UNCHANGED <<handle, werr, delivered, resultClosed>>

\* c.watchCache.RLock() of Watch; without SendInitialEvents the interval is
\* computed at once
WatchRLock(c) ==
  /\ pc[c] = "rlock" /\ CanRLock
  /\ IF opts[c].sie = "true"
       THEN /\ wcReaders' = [wcReaders EXCEPT ![c] = 1]
            /\ pc' = [pc EXCEPT ![c] = "freshRLock"]
            /\ UNCHANGED <<interval, startRV, handle, werr, delivered,
                           resultClosed>>
       ELSE WatchInterval(c, FALSE)
  /\ UNCHANGED <<wcRV, listRV, ring, store, wcWriter, wcWriterPending, log, reflVars,
                 readyVars, cacherLock, regVars, incoming, dispVars, opts, readyGen,
                 watcherVars, wpc, lastDeliveredRV, baseRV, getVars, storageRV,
                 forceClosed>>

\* waitUntilWatchCacheFreshAndForceAllEvents: waitUntilFreshAndBlock takes a read
\* lock of its own while Watch holds one. With the cache fresh it returns, its
\* lock is released by the deferred RUnlock and Watch computes the interval from
\* the store; with the cache stale it calls cond.Wait(), which gives that second
\* lock back and leaves the lock of Watch held
WatchFreshRLock(c) ==
  /\ pc[c] = "freshRLock" /\ CanRLock
  /\ IF wcRV >= opts[c].rv
       THEN WatchInterval(c, TRUE)
       ELSE /\ pc' = [pc EXCEPT ![c] = "condWait"]
            /\ UNCHANGED <<wcReaders, interval, startRV, handle, werr, delivered,
                           resultClosed>>
  /\ UNCHANGED <<wcRV, listRV, ring, store, wcWriter, wcWriterPending, log, reflVars,
                 readyVars, cacherLock, regVars, incoming, dispVars, opts, readyGen,
                 watcherVars, wpc, lastDeliveredRV, baseRV, getVars, storageRV,
                 forceClosed>>

\* cond.Wait() returns with the read lock taken again. With the cache fresh
\* waitUntilFreshAndBlock returns and Watch goes on as above; with the cache
\* still stale and the time limit passed it fails, Watch returns an error
\* watcher and both read locks are released
WatchCondWake(c) ==
  /\ pc[c] = "condWait" /\ CanRLock
  /\ IF wcRV >= opts[c].rv
       THEN WatchInterval(c, TRUE)
       ELSE /\ wcReaders' = [wcReaders EXCEPT ![c] = 0]
            /\ ReturnErrWatcher(c, "Timeout")
            /\ pc' = [pc EXCEPT ![c] = "done"]
            /\ UNCHANGED <<interval, startRV>>
  /\ UNCHANGED <<wcRV, listRV, ring, store, wcWriter, wcWriterPending, log, reflVars,
                 readyVars, cacherLock, regVars, incoming, dispVars, opts, readyGen,
                 watcherVars, wpc, lastDeliveredRV, baseRV, getVars, storageRV,
                 forceClosed>>

\* c.Lock() of the registration, with the watch-cache read lock held
WatchLockCacher(c) ==
  /\ pc[c] = "lockCacher" /\ cacherLock = Free
  /\ cacherLock' = Registrant(c)
  /\ pc' = [pc EXCEPT ![c] = "register"]
  /\ UNCHANGED <<wcVars, reflVars, readyVars, regVars, incoming, dispVars, opts,
                 readyGen, interval, startRV, handle, watcherVars, taskVars,
                 getVars, retVars, forceClosed>>

\* a registration that skips the generation check
RegistrationNeverStale(c) == FALSE

\* the registration is abandoned: the gate went not ready or to another generation
RegistrationStale(c) == generation # readyGen[c] \/ ~ReadyCheck

\* a filter that passes every object
FilterPassesAny(c, lab) == TRUE

\* the filter of the watcher on the current and on the previous object of an
\* event; the selector of a "none" watcher names a label no object has
FilterPasses(c, lab) ==
  \/ opts[c].filt = "all"
  \/ opts[c].filt = "sel" /\ lab
  \/ opts[c].filt = "neg" /\ ~lab
CurPasses(c, e) == e.type # "Deleted" /\ FilterPasses(c, e.cur)
OldPasses(c, e) == e.type # "Added" /\ FilterPasses(c, e.prev)

\* what the watcher sends to its client for an event: the selector transition
\* rule, and for a Bookmark the bookmark rule. lab is the label of the object
\* the sent event carries and rv the revision that object shows: a Deleted
\* carries the previous object with the revision of the event written over its
\* own
Convert(c, e, after) ==
  IF e.type = "Bookmark"
    THEN IF opts[c].bm /\ e.rv >= after
           THEN <<[type |-> "Bookmark", rv |-> e.rv, lab |-> FALSE]>> ELSE <<>>
    ELSE IF CurPasses(c, e) /\ OldPasses(c, e)
           THEN <<[type |-> "Modified", rv |-> e.rv, lab |-> e.cur]>>
    ELSE IF CurPasses(c, e) THEN <<[type |-> "Added", rv |-> e.rv, lab |-> e.cur]>>
    ELSE IF OldPasses(c, e) THEN <<[type |-> "Deleted", rv |-> e.rv, lab |-> e.prev]>>
    ELSE <<>>

RECURSIVE ConvertAll(_, _, _)
ConvertAll(c, es, after) ==
  IF es = <<>> THEN <<>>
  ELSE Convert(c, Head(es), after) \o ConvertAll(c, Tail(es), after)

\* the registration under the cacher lock and the return of Watch, which
\* releases the read lock. An abandoned registration returns the immediately
\* closed watcher. Otherwise processInterval is started: its catch-up phase reads
\* the interval only and writes the watcher's own output only, so what it sends
\* is recorded here, and the live phase is left to WatcherProcess
WatchRegister(c) ==
  /\ pc[c] = "register" /\ cacherLock = Registrant(c)
  /\ IF RegistrationStale(c)
       THEN /\ handle' = [handle EXCEPT ![c] = "closed"]
            /\ resultClosed' = [resultClosed EXCEPT ![c] = 1]
            /\ UNCHANGED <<regVars, widx, bookmarkAfter, wpc, lastDeliveredRV,
                           delivered, baseRV>>
       ELSE /\ widx' = [widx EXCEPT ![c] = watcherIdx]
            /\ bookmarkAfter' = [bookmarkAfter EXCEPT ![c] = BookmarkAfterRV(opts[c], storageRV[c])]
            /\ IF opts[c].trig # ""
                 THEN /\ valueWatchers' = [valueWatchers EXCEPT
                                             ![opts[c].trig] = WmAdd(@, c, watcherIdx)]
                      /\ UNCHANGED allWatchers
                 ELSE /\ allWatchers' = [allWatchers EXCEPT
                                           ![opts[c].scope] = WmAdd(@, c, watcherIdx)]
                      /\ UNCHANGED valueWatchers
            /\ bookmarkWatchers' = [bookmarkWatchers EXCEPT
                                      ![c] = IF opts[c].bm THEN @ + 1 ELSE @]
            /\ watcherIdx' = watcherIdx + 1
            /\ handle' = [handle EXCEPT ![c] = "watcher"]
            /\ wpc' = [wpc EXCEPT ![c] = "live"]
            /\ baseRV' = [baseRV EXCEPT ![c] = wcRV]
            /\ delivered' = [delivered EXCEPT
                               ![c] = ConvertAll(c, interval[c], BookmarkAfterRV(opts[c], storageRV[c]))]
            /\ lastDeliveredRV' = [lastDeliveredRV EXCEPT
                                     ![c] = SeqMaxRV(interval[c], startRV[c])]
            /\ UNCHANGED resultClosed
  /\ cacherLock' = Free
  /\ wcReaders' = [wcReaders EXCEPT ![c] = 0]
  /\ pc' = [pc EXCEPT ![c] = "done"]
  /\ UNCHANGED <<wcRV, listRV, ring, store, wcWriter, wcWriterPending, log, reflVars,
                 readyVars, incoming, dispVars, opts, readyGen, interval, startRV,
                 input, stopped, closeCount, stopCalls, sendOnClosed, sent, offered, getVars,
                 retVars, forceClosed>>

(* ------------------------- client Stop -------------------------------- *)
\* cacheWatcher.Stop() of a client: forget(false) under the cacher lock
ClientStop(c) ==
  /\ handle[c] = "watcher" /\ cacherLock = Free
  /\ ForgetLocked(c)
  /\ UNCHANGED <<wcVars, reflVars, readyVars, cacherLock, watcherIdx,
                 bookmarkWatchers, incoming, dispatching, watchersBuffer,
                 blockedWatchers, expiredBookmarkWatchers, dpc, curEvent, bidx,
                 lastProcessedRV, processed, bookmarkTicks, callVars, widx, input,
                 sendOnClosed, bookmarkAfter, taskVars, sent, offered, getVars, retVars,
                 forceClosed>>

(* ------------------------- watcher task ------------------------------- *)
\* live phase of the processing task: one event is read from the input channel;
\* a stopped watcher may give up the send to its client
WatcherProcess(c) ==
  /\ wpc[c] = "live" /\ input[c] # <<>>
  /\ input' = [input EXCEPT ![c] = Tail(@)]
  /\ \E send \in (IF stopped[c] THEN BOOLEAN ELSE {TRUE}) :
       delivered' = [delivered EXCEPT
                       ![c] = IF send /\ Head(input[c]).rv > lastDeliveredRV[c]
                                THEN @ \o Convert(c, Head(input[c]), bookmarkAfter[c])
                                ELSE @]
  /\ UNCHANGED <<wcVars, reflVars, readyVars, cacherLock, regVars, incoming, dispVars,
                 callVars, widx, stopped, closeCount, stopCalls, sendOnClosed,
                 bookmarkAfter, wpc, lastDeliveredRV, resultClosed, baseRV,
                 sent, offered, getVars, retVars, forceClosed>>

\* the input channel is closed and drained: the task ends and closes the
\* client-facing channel
WatcherExit(c) ==
  /\ wpc[c] = "live" /\ input[c] = <<>> /\ closeCount[c] > 0
  /\ resultClosed' = [resultClosed EXCEPT ![c] = @ + 1]
  /\ wpc' = [wpc EXCEPT ![c] = "done"]
  /\ UNCHANGED <<wcVars, reflVars, readyVars, cacherLock, regVars, incoming, dispVars,
                 callVars, watcherVars, lastDeliveredRV, delivered, baseRV,
                 getVars, retVars, forceClosed>>

(* ------------------------- Get / GetList ------------------------------ *)
\* the values of ResourceVersionMatch: unset, NotOlderThan and Exact
Matches == {"", "NotOlderThan", "Exact"}

\* the calls of Get and GetList the reader makes; rvSet is FALSE for
\* ResourceVersion "". A GetList has a continuation token or not, a limit of 0
\* or 1 and a ResourceVersionMatch, and finds the APIListChunking feature gate
\* (paging) on or off; the lists with such options are recursive and ask for
\* revision 0 or 1
Requests ==
  {[NoRequest EXCEPT !.kind = "Get", !.rvSet = s, !.rv = r, !.ignoreNotFound = i] :
     s \in BOOLEAN, r \in 0..MaxRV, i \in BOOLEAN}
  \cup {[NoRequest EXCEPT !.kind = "GetList", !.rvSet = s, !.rv = r, !.recursive = x] :
          s \in BOOLEAN, r \in 0..MaxRV, x \in BOOLEAN}
  \cup {[kind |-> "GetList", rvSet |-> TRUE, rv |-> r, recursive |-> TRUE,
         ignoreNotFound |-> FALSE, continue |-> k, limit |-> l, match |-> m,
         paging |-> p] :
          r \in {0, 1}, k \in BOOLEAN, l \in {0, 1}, m \in Matches, p \in BOOLEAN}

\* a shouldDelegateList that looks at the revision only
ShouldDelegateListUnsetOnly(req) == ~req.rvSet

\* shouldDelegateList
ShouldDelegateList(req) ==
  LET hasContinuation == req.paging /\ req.continue
      hasLimit == req.paging /\ req.limit > 0 /\ ~(req.rvSet /\ req.rv = 0)
      unsupportedMatch == req.match # "" /\ req.match # "NotOlderThan"
  IN ~req.rvSet \/ hasContinuation \/ hasLimit \/ unsupportedMatch

\* a cacher that sends no call to the storage for its options
DelegatedNever(req) == FALSE

\* Get: opts.ResourceVersion == "", GetList: shouldDelegateList
Delegated(req) ==
  IF req.kind = "Get" THEN ~req.rvSet ELSE ShouldDelegateList(req)

\* a read that does not wait for any revision
FreshRVZero(req) == 0

\* getRV of Get, listRV of GetList: the revision the cache has to reach
FreshRV(req) == req.rv

\* the revision Get puts in the not-found error and GetList in the list
ReportedRV(req, readResourceVersion) == readResourceVersion

\* whether the answer carries a revision: the list does, a Get only in the
\* not-found error
ReportsRV(req, exists) ==
  req.kind = "GetList" \/ (~exists /\ ~req.ignoreNotFound)

\* Get / GetList up to ready.wait: served by the storage for an unset revision,
\* and for revision 0 while the cache is not ready
GetCallWith(R) ==
  /\ gpc = "idle"
  /\ \E req \in {q \in R : q.rvSet \/ q.rv = 0} :
       /\ greq' = req
       /\ IF Delegated(req) \/ (FreshRV(req) = 0 /\ ~ReadyCheck)
            THEN /\ gres' = [NoResult EXCEPT !.kind = "storage"]
                 /\ gpc' = "done"
            ELSE /\ gres' = NoResult
                 /\ gpc' = "wait"
  /\ UNCHANGED <<wcVars, reflVars, readyVars, cacherLock, regVars, incoming, dispVars,
                 callVars, watcherVars, taskVars, retVars, forceClosed,
                 mut>>

GetCall == GetCallWith(Requests)

\* a Get that goes on to the cache without ready.wait
GetPassGateAny ==
  /\ gpc = "wait"
  /\ gpc' = "fresh"
  /\ UNCHANGED <<wcVars, reflVars, readyVars, cacherLock, regVars, incoming, dispVars,
                 callVars, watcherVars, taskVars, greq, gres, retVars, forceClosed,
                 mut>>

\* ready.wait returns: the cache is ready
GetPassGate ==
  /\ gpc = "wait" /\ ReadyCheck
  /\ gpc' = "fresh"
  /\ UNCHANGED <<wcVars, reflVars, readyVars, cacherLock, regVars, incoming, dispVars,
                 callVars, watcherVars, taskVars, greq, gres, retVars, forceClosed,
                 mut>>

\* WaitUntilFreshAndGet / WaitUntilFreshAndList read the store under the read
\* lock once the cache is at the revision asked for
GetRead ==
  /\ gpc = "fresh"
  /\ CanRLock /\ wcRV >= FreshRV(greq)
  /\ gres' = [kind |-> "cache", found |-> store.present, at |-> wcRV,
              hasRV |-> ReportsRV(greq, store.present),
              rv |-> ReportedRV(greq, wcRV), err |-> "nil"]
  /\ gpc' = "done"
  /\ UNCHANGED <<wcVars, reflVars, readyVars, cacherLock, regVars, incoming, dispVars,
                 callVars, watcherVars, taskVars, greq, retVars, forceClosed,
                 mut>>

\* ready.wait fails (the gate is stopped, or the context ends while it is not
\* ready) and the call returns ServiceUnavailable; or the wait for freshness
\* runs out of time
GetTimeout ==
  /\ \/ gpc = "wait" /\ ~ReadyCheck
        /\ gres' = [NoResult EXCEPT !.kind = "error", !.err = "ServiceUnavailable"]
     \/ gpc = "fresh" /\ wcRV < FreshRV(greq)
        /\ gres' = [NoResult EXCEPT !.kind = "error", !.err = "Timeout"]
  /\ gpc' = "done"
  /\ UNCHANGED <<wcVars, reflVars, readyVars, cacherLock, regVars, incoming, dispVars,
                 callVars, watcherVars, taskVars, greq, retVars, forceClosed,
                 mut>>

\* the reader goes on to its next call
GetReturn ==
  /\ gpc = "done"
  /\ gpc' = "idle"
  /\ UNCHANGED <<wcVars, reflVars, readyVars, cacherLock, regVars, incoming, dispVars,
                 callVars, watcherVars, taskVars, greq, gres, retVars, forceClosed,
                 mut>>

(* ------------------------- Delete / GuaranteedUpdate ------------------ *)
\* the calls of the writer: with the suggestion of its caller, if any
Mutations ==
  {[kind |-> k, suggestion |-> h] :
     k \in {"Delete", "GuaranteedUpdate"},
     h \in {NoHint} \cup {[given |-> TRUE, obj |-> [present |-> TRUE, lab |-> l]] :
                            l \in BOOLEAN}}

\* what the storage can answer
StoreResults == {"ok", "Conflict", "NotFound"}

\* a cacher that passes the suggestion of its caller on
CurrObjSuggested(req, exists) == req.suggestion

\* the current version of the object read from the cache, if it is there
CurrObj(req, exists) ==
  IF exists THEN [given |-> TRUE, obj |-> store] ELSE NoHint

\* Delete / GuaranteedUpdate: watchCache.GetByKey under the read lock; an error
\* of GetByKey is logged and leaves the call without hint
MutateGetByKey ==
  /\ mut.pc = "idle" /\ Len(mut.calls) < MaxCalls /\ CanRLock
  /\ \E req \in Mutations, err \in BOOLEAN :
       mut' = [mut EXCEPT !.pc = "call", !.req = req, !.res = "none", !.err = err,
                          !.hint = CurrObj(req, ~err /\ store.present)]
  /\ UNCHANGED <<wcVars, reflVars, readyVars, cacherLock, regVars, incoming, dispVars,
                 callVars, watcherVars, taskVars, gpc, greq, gres, retVars,
                 forceClosed>>

\* the one call of c.storage.Delete / GuaranteedUpdate, whose result is returned
MutateStore ==
  /\ mut.pc = "call"
  /\ \E r \in StoreResults :
       mut' = [mut EXCEPT !.pc = "idle", !.res = r,
                          !.calls = Append(@, [kind |-> mut.req.kind,
                                               hint |-> mut.hint, result |-> r])]
  /\ UNCHANGED <<wcVars, reflVars, readyVars, cacherLock, regVars, incoming, dispVars,
                 callVars, watcherVars, taskVars, gpc, greq, gres, retVars,
                 forceClosed>>

(* ------------------------- specifications ----------------------------- *)
\* two watchers without SendInitialEvents while the reflector stays connected
Next ==
  \/ TerminateAllWatchers
  \/ ReplaceRequest \/ Replace
  \/ AssimilateRequest \/ Assimilate \/ ProcessEvent
  \/ DispatchEvent \/ BookmarkTick
  \/ AddSend \/ AddTimeout
  \/ FinishDispatching
  \/ \E c \in Clients :
       \/ WatchPassGate(c) \/ WatchRLock(c)
       \/ WatchLockCacher(c) \/ WatchRegister(c)
       \/ ClientStop(c)
       \/ WatcherProcess(c) \/ WatcherExit(c)

Spec == Init /\ [][Next]_vars

\* two watchers whose clients do not stop them, without bookmark ticks, while
\* the reflector stays connected
NextDispatch ==
  \/ TerminateAllWatchers
  \/ ReplaceRequest \/ Replace
  \/ AssimilateRequest \/ Assimilate \/ ProcessEvent
  \/ DispatchEvent
  \/ AddSend \/ AddTimeout
  \/ FinishDispatching
  \/ \E c \in Clients :
       \/ WatchPassGate(c) \/ WatchRLock(c)
       \/ WatchLockCacher(c) \/ WatchRegister(c)
       \/ WatcherProcess(c) \/ WatcherExit(c)

\* the dispatcher goroutine and the timer of the blocking add make progress,
\* and a registration that holds the cacher lock gives it back; nothing is
\* assumed of the tasks that drain the watchers' channels
SpecDispatch ==
  /\ Init /\ [][NextDispatch]_vars
  /\ WF_vars(DispatchEvent)
  /\ WF_vars(AddSend \/ AddTimeout)
  /\ WF_vars(FinishDispatching)
  /\ \A c \in Clients : WF_vars(WatchRegister(c))

\* the clients that call Watch while the reflector disconnects and starts again
RestartClients == 1..NumRestartClients

NextRestart ==
  \/ TerminateAllWatchers
  \/ ReplaceRequest \/ Replace
  \/ AssimilateRequest \/ Assimilate \/ ProcessEvent
  \/ Disconnect
  \/ DispatchEvent \/ BookmarkTick
  \/ AddSend \/ AddTimeout
  \/ FinishDispatching
  \/ \E c \in RestartClients :
       \/ WatchPassGate(c) \/ WatchRLock(c)
       \/ WatchLockCacher(c) \/ WatchRegister(c)
       \/ ClientStop(c)
       \/ WatcherProcess(c) \/ WatcherExit(c)

SpecRestart == Init /\ [][NextRestart]_vars

\* watches with SendInitialEvents while the reflector stays connected
NextInitialEvents ==
  \/ TerminateAllWatchers
  \/ ReplaceRequest \/ Replace
  \/ AssimilateRequest \/ Assimilate \/ ProcessEvent
  \/ DispatchEvent \/ BookmarkTick
  \/ AddSend \/ AddTimeout
  \/ FinishDispatching
  \/ \E c \in Clients :
       \/ WatchPassGateInitialEvents(c) \/ WatchRLock(c) \/ WatchFreshRLock(c)
       \/ WatchCondWake(c)
       \/ WatchLockCacher(c) \/ WatchRegister(c)
       \/ ClientStop(c)
       \/ WatcherProcess(c) \/ WatcherExit(c)

SpecInitialEvents == Init /\ [][NextInitialEvents]_vars

\* a reader calling Get and GetList while the reflector fills the cache,
\* disconnects and starts again
NextGet ==
  \/ TerminateAllWatchers
  \/ ReplaceRequest \/ Replace
  \/ AssimilateRequest \/ Assimilate \/ ProcessEvent
  \/ Disconnect
  \/ DispatchEvent \/ FinishDispatching
  \/ GetCall \/ GetPassGate \/ GetRead \/ GetTimeout \/ GetReturn

SpecGet == Init /\ [][NextGet]_vars
\* one client calling Watch with any options while the reflector fills the cache
NextWatch ==
  \/ TerminateAllWatchers
  \/ ReplaceRequest \/ Replace
  \/ AssimilateRequest \/ Assimilate \/ UpdateResourceVersion \/ ProcessEvent
  \/ DispatchEvent \/ BookmarkTick
  \/ AddSend \/ AddTimeout
  \/ FinishDispatching
  \/ \E c \in RestartClients :
       \/ WatchCall(c) \/ WatchWaitReady(c)
       \/ WatchRLock(c) \/ WatchFreshRLock(c) \/ WatchCondWake(c)
       \/ WatchLockCacher(c) \/ WatchRegister(c)
       \/ WatcherProcess(c) \/ WatcherExit(c)

SpecWatch == Init /\ [][NextWatch]_vars
\* the Watch calls of two clients that draw from the same options: everything;
\* the labelled objects of one name through the trigger index, with bookmarks;
\* another namespace; the unlabelled objects through the trigger index; a
\* selector no object matches. All start from revision 1
RegistryOptions ==
  {[NoOpts EXCEPT !.rv = 1, !.rvStr = "num"],
   [NoOpts EXCEPT !.rv = 1, !.rvStr = "num", !.bm = TRUE, !.filt = "sel",
                  !.scope = <<"ns", "n">>, !.trig = "v"],
   [NoOpts EXCEPT !.rv = 1, !.rvStr = "num", !.scope = <<"other", "">>],
   [NoOpts EXCEPT !.rv = 1, !.rvStr = "num", !.filt = "neg", !.trig = "u"],
   [NoOpts EXCEPT !.rv = 1, !.rvStr = "num", !.filt = "none"]}

\* two watchers with options of the same set while the reflector stays connected
NextRegistry ==
  \/ TerminateAllWatchers
  \/ ReplaceRequest \/ Replace
  \/ AssimilateRequest \/ Assimilate \/ ProcessEvent
  \/ DispatchEvent \/ BookmarkTick
  \/ AddSend \/ AddTimeout
  \/ FinishDispatching
  \/ \E c \in Clients :
       \/ WatchGate(c, RegistryOptions) \/ WatchRLock(c)
       \/ WatchLockCacher(c) \/ WatchRegister(c)
       \/ WatcherProcess(c) \/ WatcherExit(c)

SpecRegistry == Init /\ [][NextRegistry]_vars

\* the calls made around a Stop: a Watch without revision, with a malformed
\* one, from revision 1; a Get without
\* revision, at revision 0 or 1, a recursive GetList at revision 1
StopWatchOptions ==
  {[NoOpts EXCEPT !.rvStr = s] : s \in {"", "bad"}}
    \cup {[NoOpts EXCEPT !.rv = 1, !.rvStr = "num"]}

StopRequests ==
  {[NoRequest EXCEPT !.kind = "Get"]}
  \cup {[NoRequest EXCEPT !.kind = "Get", !.rvSet = TRUE, !.rv = r] : r \in {0, 1}}
  \cup {[NoRequest EXCEPT !.kind = "GetList", !.rvSet = TRUE, !.rv = 1,
                          !.recursive = TRUE]}

\* one Watch caller and one reader while the cacher is filled and then stopped
NextStop ==
  \/ TerminateAllWatchers
  \/ ReplaceRequest \/ Replace
  \/ AssimilateRequest \/ Assimilate \/ ProcessEvent
  \/ Disconnect \/ Stop(1)
  \/ DispatchEvent \/ AddSend \/ AddTimeout \/ FinishDispatching
  \/ \E c \in RestartClients :
       \/ WatchCallWith(c, StopWatchOptions) \/ WatchWaitReady(c)
       \/ WatchRLock(c) \/ WatchLockCacher(c) \/ WatchRegister(c)
       \/ WatcherProcess(c) \/ WatcherExit(c)
  \/ GetCallWith(StopRequests) \/ GetPassGate \/ GetRead \/ GetTimeout
  \/ GetReturn

SpecStop == Init /\ [][NextStop]_vars

\* Stop called twice while the reflector pushes events and one client watches
NextShutdown ==
  \/ TerminateAllWatchers
  \/ ReplaceRequest \/ Replace
  \/ AssimilateRequest \/ Assimilate \/ ProcessEvent
  \/ ListAndWatchStopped \/ ReflectorExit
  \/ DispatchEvent \/ AddSend \/ AddTimeout \/ FinishDispatching
  \/ DispatcherExit
  \/ \E k \in StopCallers : Stop(k) \/ StopClose(k) \/ StopReturn(k)
  \/ \E c \in RestartClients :
       \/ WatchCallWith(c, StopWatchOptions) \/ WatchWaitReady(c)
       \/ WatchRLock(c) \/ WatchLockCacher(c) \/ WatchRegister(c)
       \/ WatcherProcess(c) \/ WatcherExit(c)

\* the goroutines of the cacher, the callers of Stop and the registration make
\* progress; the dispatcher's select may take either of two ready cases
SpecShutdown ==
  /\ Init /\ [][NextShutdown]_vars
  /\ WF_vars(TerminateAllWatchers) /\ WF_vars(ReplaceRequest) /\ WF_vars(Replace)
  /\ WF_vars(Assimilate) /\ WF_vars(ProcessEvent)
  /\ WF_vars(ListAndWatchStopped) /\ WF_vars(ReflectorExit)
  /\ WF_vars(DispatchEvent \/ DispatcherExit)
  /\ WF_vars(AddSend \/ AddTimeout) /\ WF_vars(FinishDispatching)
  /\ \A k \in StopCallers : WF_vars(StopClose(k)) /\ WF_vars(StopReturn(k))
  /\ \A c \in RestartClients :
       /\ WF_vars(WatchRLock(c)) /\ WF_vars(WatchLockCacher(c))
       /\ WF_vars(WatchRegister(c)) /\ WF_vars(WatchWaitReady(c))

\* a writer calling Delete and GuaranteedUpdate while the reflector fills the
\* cache, disconnects and starts again
NextMutate ==
  \/ TerminateAllWatchers
  \/ ReplaceRequest \/ Replace
  \/ AssimilateRequest \/ Assimilate \/ ProcessEvent
  \/ Disconnect
  \/ DispatchEvent \/ FinishDispatching
  \/ MutateGetByKey \/ MutateStore

SpecMutate == Init /\ [][NextMutate]_vars

(* ------------------------- properties --------------------------------- *)
IsPrefix(s, t) == Len(s) <= Len(t) /\ \A i \in 1..Len(s) : s[i] = t[i]
NoBookmarks(s) == SelectSeq(s, LAMBDA x : x.type # "Bookmark")
LastOf(s) == s[Len(s)]

\* every matching event assimilated above the start revision of a watcher
OwedSinceStart(c) ==
  ConvertAll(c, SelectSeq(log, LAMBDA e : e.rv > startRV[c]), 0)

\* the replay interval of a watcher and then the matching events assimilated
\* after the interval was computed, above its start revision
OwedSinceInterval(c) ==
  ConvertAll(c, interval[c], 0)
  \o ConvertAll(c, SelectSeq(log, LAMBDA e : e.rv > Max(baseRV[c], startRV[c])), 0)

\* C1: a registered watcher that is never stopped or force-closed is sent, in
\* revision order, without gap and without duplicate, the matching events
\* assimilated above its start revision: either each of them, or its replay
\* interval and then each of those assimilated after the interval was computed,
\* none of those the interval covers coming a second time from the dispatcher
C1_ContiguousDelivery ==
  \A c \in Clients :
    (wpc[c] # "none" /\ stopCalls[c] = 0)
      => \/ IsPrefix(NoBookmarks(delivered[c]), OwedSinceStart(c))
         \/ IsPrefix(NoBookmarks(delivered[c]), OwedSinceInterval(c))

StrictlyIncreasing(s) == \A i \in 1..(Len(s) - 1) : s[i].rv < s[i + 1].rv

Monotone(s) ==
  \A i \in 1..(Len(s) - 1) :
    \/ s[i].rv < s[i + 1].rv
    \/ s[i].rv = s[i + 1].rv /\ s[i + 1].type = "Bookmark"

C3_FreshRead ==
  gres.kind = "cache"
    => /\ gres.at >= greq.rv
       /\ gres.hasRV => gres.rv = gres.at

C3_Witness ==
  /\ gres.kind = "cache" /\ gres.hasRV /\ ~gres.found
  /\ greq.rv >= 2 /\ gres.at > greq.rv

\* C4: a registration that finds the gate not ready or at another generation
\* under the cacher lock adds the watcher neither to the registry nor to the
\* bookmark queue, starts no processing task and returns a closed handle that
\* carries no event
C4_AbortedRegistration ==
  /\ [](\A c \in Clients :
          handle[c] = "closed"
            => /\ ~Registered(c) /\ bookmarkWatchers[c] = 0
               /\ wpc[c] = "none" /\ delivered[c] = <<>> /\ sent[c] = <<>>)
  /\ [][\A c \in Clients :
          (/\ pc[c] = "register" /\ pc'[c] = "done"
           /\ (generation # readyGen[c] \/ readyState # "Ready"))
            => handle'[c] = "closed"]_vars

C4_Witness ==
  \E c \in Clients :
    /\ handle[c] = "closed" /\ pc[c] = "done" /\ opts[c].bm
    /\ generation # readyGen[c]

\* C5: a Watch that waits for the cache to reach its revision never keeps the
\* reflector from the write lock of the watch cache
C5_WaitingWatchLetsReflectorWrite ==
  ~(\E c \in Clients :
      pc[c] = "condWait" /\ wcReaders[c] > 0 /\ wcWriterPending)

\* the cacher lock is held by a registration only, which took its read lock of
\* the watch cache before and asks for no lock while it holds the cacher lock
LockOrder ==
  cacherLock # Free
    => \E c \in Clients :
         cacherLock = Registrant(c) /\ pc[c] = "register" /\ wcReaders[c] = 1

\* no registration waits for a read lock behind the reflector's Lock() while the
\* reflector waits for a read lock of that registration
NoLockCycle ==
  ~(\E c \in Clients :
      pc[c] = "freshRLock" /\ wcReaders[c] > 0 /\ wcWriterPending)

\* C6: the watch-cache lock is never requested under the cacher lock, and no
\* deadlock among reflector, dispatcher, registration and removal is reachable
C6_LockOrderNoDeadlock == LockOrder /\ NoLockCycle

\* the timer of the blocking pass fires on w: the pass leaves w without a send
TimerFiresOn(w) ==
  /\ dpc = "blocking" /\ BlockedWatcher = w
  /\ closeCount[w] = 0
  /\ bidx' # bidx /\ sent' = sent

\* C7: when a candidate of an event does not accept it, every other candidate
\* receives the event and stays a candidate of the later ones; only the watcher
\* that did not accept is closed
C7_OthersUnaffected ==
  /\ []((dpc = "finish" /\ curEvent.type # "Bookmark")
          => \A w \in Range(watchersBuffer) :
               \/ sent[w] # <<>> /\ LastOf(sent[w]) = Sent(curEvent)
               \/ /\ w \in Range(blockedWatchers)
                  /\ w \in Range(watchersToStop) /\ ~Registered(w))
  /\ [][\A w \in Clients :
          TimerFiresOn(w)
            => \A v \in Clients \ {w} :
                 /\ Registered(v)' = Registered(v)
                 /\ stopCalls'[v] = stopCalls[v]
                 /\ closeCount'[v] = closeCount[v]
                 /\ stopped'[v] = stopped[v]
                 /\ input'[v] = input[v]]_vars

C7_Witness ==
  /\ dpc = "finish" /\ curEvent.type # "Bookmark"
  /\ \E w, v \in Range(watchersBuffer) :
       /\ w # v
       /\ w \in Range(blockedWatchers) /\ w \in Range(watchersToStop)
       /\ ~Registered(w) /\ Len(input[w]) = ChanSize
       /\ LastOf(sent[w]) # Sent(curEvent)
       /\ Registered(v) /\ sent[v] # <<>> /\ LastOf(sent[v]) = Sent(curEvent)

\* C8: a blocked watcher that has not accepted the event when the timer fires is
\* removed from the registry, its channel is closed at the end of that dispatch,
\* and the dispatcher puts no later event on it
C8_ForcedClose ==
  [][/\ \A w \in Clients :
          TimerFiresOn(w)
            => /\ ~Registered(w)'
               /\ w \in Range(watchersToStop')
               /\ closeCount'[w] = 0
     /\ (dispatching /\ ~dispatching')
          => \A w \in Range(watchersToStop) : closeCount'[w] = 1 /\ stopped'[w]
     /\ \A w \in Clients :
          sent'[w] # sent[w]
            => /\ closeCount[w] = 0
               /\ Registered(w) \/ (dpc = "blocking" /\ BlockedWatcher = w)]_vars

C8_Witness ==
  /\ dpc = "finish"
  /\ \E w \in Range(blockedWatchers) :
       /\ ~Registered(w) /\ w \in Range(watchersToStop)
       /\ closeCount[w] = 0
       /\ sent[w] # <<>> /\ LastOf(sent[w]) # Sent(curEvent)

\* C9: while a dispatch is in flight no channel is closed: a stop requested in
\* that window is queued and executed by the finishDispatching of that dispatch,
\* so the to-stop list is empty whenever no dispatch is in flight
C9_DeferredStops ==
  /\ [](/\ ~dispatching => watchersToStop = <<>>
        /\ ~sendOnClosed
        /\ dispatching
             => \A w \in Clients :
                  (stopCalls[w] > 0 /\ ~stopped[w]) => w \in Range(watchersToStop))
  /\ [][/\ closeCount' # closeCount => ~dispatching'
        /\ (dispatching /\ ~dispatching')
             => \A w \in Range(watchersToStop) : closeCount'[w] >= 1]_vars

C9_Witness ==
  /\ dispatching /\ watchersToStop # <<>>
  /\ closeCount[watchersToStop[1]] = 0

\* C10: a watcher's channel is closed exactly once at termination: the registry
\* invokes the stop callback at most once per watcher, and a watcher removed
\* from the registry is stopped (at the end of the dispatch in flight, if any)
C10_StoppedOnce ==
  \A c \in Clients :
    /\ stopCalls[c] <= 1 /\ closeCount[c] <= 1 /\ resultClosed[c] <= 1
    /\ (widx[c] # -1 /\ ~Registered(c))
         => /\ stopCalls[c] = 1
            /\ stopped[c] \/ (dispatching /\ c \in Range(watchersToStop))
    /\ stopped[c] => closeCount[c] = 1
    /\ wpc[c] = "done" => (closeCount[c] = 1 /\ resultClosed[c] = 1)

C10_Witness ==
  \E c \in Clients :
    /\ widx[c] # -1 /\ ~Registered(c)
    /\ stopped[c] /\ closeCount[c] = 1 /\ resultClosed[c] = 1
    /\ rpc = "list"

\* the step of Watch that computes the replay interval, the cache being fresh
\* enough for a watch with the initial events
IntervalStep(c) ==
  /\ pc[c] \in {"rlock", "freshRLock", "condWait"}
  /\ pc'[c] \in {"done", "lockCacher"}
  /\ opts[c].sie = "true" => wcRV >= opts[c].rv

\* the handle of a Watch that failed with err: one Error event of that kind on a
\* closed channel, and no watcher behind it
ErrorHandle(c, err) ==
  /\ handle[c] = "error"
  /\ delivered[c] = <<[type |-> "Error", rv |-> 0, reason |-> err]>>
  /\ resultClosed[c] = 1
  /\ ~Registered(c) /\ widx[c] = -1 /\ wpc[c] = "none"
  /\ bookmarkWatchers[c] = 0 /\ sent[c] = <<>>

\* C11 as stated: every Watch whose start revision is older than the oldest
\* revision retained yields a handle with exactly one Error event of kind
\* TooOldResourceVersion on a closed channel, and registers no watcher
C11_TooOldAnyWatch ==
  [][\A c \in Clients :
       (IntervalStep(c) /\ TooOld(StartWatchRV(opts[c], storageRV[c])))
         => ErrorHandle(c, "TooOldResourceVersion")']_vars

\* C11 as amended: a Watch that replays from the ring (SendInitialEvents not
\* true) and whose replay would begin at a revision older than the oldest one
\* retained, after a ring overflow or a Replace at a newer snapshot, yields a
\* handle with exactly one Error event of kind TooOldResourceVersion on a closed
\* channel; no watcher is registered for it, then or later
C11_TooOldReplay ==
  /\ [][\A c \in Clients :
          (IntervalStep(c) /\ opts[c].sie # "true"
             /\ TooOld(StartWatchRV(opts[c], storageRV[c])))
            => ErrorHandle(c, "TooOldResourceVersion")']_vars
  /\ [](\A c \in Clients :
          (handle[c] = "error" /\ opts[c].sie # "true")
            => ErrorHandle(c, "TooOldResourceVersion"))

C11_Witness ==
  \E c \in Clients :
    /\ ErrorHandle(c, "TooOldResourceVersion")
    /\ ring # <<>> /\ startRV[c] + 1 < ring[1].rv
    /\ \E d \in Clients : handle[d] = "watcher" /\ opts[d].sie = "true"

\* the call of c is past ParseResourceVersion and the readiness gate
PastGate(c) ==
  \/ pc[c] \in {"rlock", "freshRLock", "condWait", "lockCacher", "register"}
  \/ pc[c] = "gate" /\ readyState = "Ready"

\* the handle is an error watcher: exactly one event, of type Error, on a closed
\* channel, and no watcher was registered
OneErrorThenClosed(c) ==
  /\ handle[c] = "error"
  /\ Len(delivered[c]) = 1 /\ delivered[c][1].type = "Error"
  /\ resultClosed[c] = 1
  /\ ~Registered(c) /\ widx[c] = -1 /\ wpc[c] = "none"

\* C12: past the parse of the revision and the readiness gate Watch returns no
\* error: it returns a watcher, a closed watcher, or, when the storage revision,
\* the wait for freshness or the replay interval failed, a handle whose channel
\* carries exactly one Error event and is closed
C12_ErrorsAsEvents ==
  [][\A c \in Clients :
       /\ PastGate(c) => werr'[c] = "nil"
       /\ (PastGate(c) /\ pc'[c] = "done")
            => \/ handle'[c] \in {"watcher", "closed"}
               \/ OneErrorThenClosed(c)'
       /\ (pc[c] = "gate" /\ readyState = "Ready" /\ pc'[c] = "done")
            => OneErrorThenClosed(c)' /\ delivered'[c][1].reason = "InternalError"
       /\ (pc[c] = "condWait" /\ pc'[c] = "done")
            => OneErrorThenClosed(c)' /\ delivered'[c][1].reason = "Timeout"
       /\ (pc[c] = "rlock" /\ pc'[c] = "done")
            => /\ OneErrorThenClosed(c)'
               /\ delivered'[c][1].reason = "TooOldResourceVersion"]_vars

C12_Witness ==
  \E c \in Clients :
    /\ OneErrorThenClosed(c) /\ werr[c] = "nil" /\ pc[c] = "done"
    /\ delivered[c][1].reason = "InternalError" /\ opts[c].sie = "false"

HasError(s) == \E i \in 1..Len(s) : s[i].type = "Error"

Routed(kind) == gpc = "idle" /\ gpc' # "idle" /\ greq'.kind = kind

\* the reader's call of the given kind, not delegated, returns
Served(kind) == gpc \in {"wait", "fresh"} /\ gpc' = "done" /\ greq.kind = kind

\* the call is answered from the watch cache, after the wait for the gate and
\* with the cache at least at the revision asked for, or fails; the storage is
\* not called
FromCacheOrError ==
  /\ gres'.kind \in {"cache", "error"}
  /\ gres'.kind = "cache"
       => /\ gpc = "fresh" /\ wcRV >= greq.rv
          /\ gres'.at = wcRV /\ gres'.found = store.present

\* C14: a Get goes to the storage when its ResourceVersion is empty, and when
\* its revision is 0 while the cache is not ready; any other Get waits for the
\* cache to be ready and at its revision and is answered from the cache with the
\* value or not-found, the storage not being called
C14_GetRouting ==
  [][/\ Routed("Get")
          => (gres'.kind = "storage"
                <=> (~greq'.rvSet \/ (greq'.rv = 0 /\ readyState # "Ready")))
     /\ Served("Get") => FromCacheOrError
     /\ (gpc = "wait" /\ gpc' = "fresh") => readyState = "Ready"]_vars

C14_Witness ==
  /\ greq.kind = "Get" /\ greq.rvSet /\ greq.rv = 0
  /\ gres.kind = "cache" /\ ~gres.found /\ generation >= 1

\* the four conditions of delegation as the specification lists them
StatedDelegation(req) ==
  \/ ~req.rvSet
  \/ req.paging /\ req.continue
  \/ req.limit # 0 /\ req.rv # 0
  \/ req.match \notin {"", "NotOlderThan"}

\* C15 as stated: a GetList goes to the storage if and only if its
\* ResourceVersion is empty, or it has a continuation token (chunking enabled),
\* or a non-zero limit with a non-zero revision, or a ResourceVersionMatch other
\* than empty and NotOlderThan; any other GetList is served from the cache
C15_DelegatedIffStated ==
  [][/\ Routed("GetList")
          => (gres'.kind = "storage" <=> StatedDelegation(greq'))
     /\ Served("GetList") => FromCacheOrError]_vars

\* C15 as amended: a GetList goes to the storage if and only if its
\* ResourceVersion is empty, or chunking is enabled and it has a continuation
\* token or a non-zero limit with a non-zero revision, or its
\* ResourceVersionMatch is neither empty nor NotOlderThan, or its revision is 0
\* and the cache is not ready; any other GetList is served from the cache
C15_DelegatedIff ==
  [][/\ Routed("GetList")
          => (gres'.kind = "storage"
                <=> \/ ~greq'.rvSet
                    \/ greq'.paging /\ greq'.continue
                    \/ greq'.paging /\ greq'.limit # 0 /\ greq'.rv # 0
                    \/ greq'.match \notin {"", "NotOlderThan"}
                    \/ greq'.rv = 0 /\ readyState # "Ready")
     /\ Served("GetList") => FromCacheOrError]_vars

C15_Witness ==
  /\ greq.kind = "GetList" /\ greq.rvSet /\ greq.rv = 1
  /\ greq.limit = 1 /\ ~greq.paging /\ greq.continue
  /\ greq.match = "NotOlderThan"
  /\ gres.kind = "cache"

\* the Watch call of c leaves its first step, the options being read
WatchRouted(c) == pc[c] = "idle" /\ pc'[c] # "idle"

\* a Watch that was not sent to the storage ends in the cache: with a watcher, a
\* closed or an error handle, or a returned error
HandledByCache(c) ==
  /\ (pc[c] \notin {"idle", "done"} /\ pc'[c] = "done")
       => handle'[c] \in {"watcher", "closed", "error", "nil"}
  /\ handle[c] # "storage" => handle'[c] # "storage" \/ pc[c] = "idle"
  /\ handle[c] = "storage" => (~Registered(c)' /\ wpc'[c] = "none")

\* C16 as stated: a Watch goes to the storage exactly when it was called without
\* SendInitialEvents and without ResourceVersion; any other Watch is handled by
\* the cache
C16_DelegatedIffStated ==
  [][\A c \in Clients :
       /\ WatchRouted(c)
            => (handle'[c] = "storage"
                  <=> (opts'[c].sieAsked = "nil" /\ opts'[c].rvStr = ""))
       /\ HandledByCache(c)]_vars

\* C16 as amended: a Watch goes to the storage exactly when its ResourceVersion
\* is empty and SendInitialEvents is unset or dropped because the WatchList
\* feature gate is off; any other Watch is handled by the cache
C16_DelegatedIff ==
  [][\A c \in Clients :
       /\ WatchRouted(c)
            => (handle'[c] = "storage"
                  <=> /\ opts'[c].rvStr = ""
                      /\ opts'[c].sieAsked = "nil" \/ ~opts'[c].gate)
       /\ HandledByCache(c)]_vars

C16_Witness ==
  \E c \in Clients :
    /\ handle[c] = "storage" /\ pc[c] = "done"
    /\ opts[c].sieAsked = "true" /\ ~opts[c].gate /\ opts[c].rvStr = ""

\* C17: the revision a watch served by the cache starts from is the requested
\* one with SendInitialEvents=true; with SendInitialEvents=false it is the
\* revision of the cache, read under the read lock of the watch cache, when the
\* requested one is 0, the revision read from the storage when none was given,
\* and the requested one otherwise; the replay of such a watch holds only events
\* above that revision
C17_StartRevision ==
  [][\A c \in Clients :
       IntervalStep(c)
         => /\ opts[c].sie = "true" => startRV'[c] = opts[c].rv
            /\ opts[c].sie = "false"
                 => /\ startRV'[c] = IF opts[c].rvStr = "" THEN storageRV[c]
                                     ELSE IF opts[c].rv = 0 THEN wcRV
                                     ELSE opts[c].rv
                    /\ ~wcWriter
                    /\ pc'[c] = "lockCacher"
                         => \A i \in 1..Len(interval'[c]) :
                              interval'[c][i].rv > startRV'[c]]_vars

C17_Witness ==
  \E c \in Clients :
    /\ handle[c] = "watcher" /\ opts[c].sie = "false" /\ opts[c].rvStr = ""
    /\ startRV[c] = storageRV[c] /\ startRV[c] > baseRV[c]
    /\ lastDeliveredRV[c] = startRV[c]

\* the watchers opened with SendInitialEvents=true and AllowWatchBookmarks=true
InitialEventsWatcher(c) ==
  handle[c] = "watcher" /\ opts[c].sie = "true" /\ opts[c].bm

\* the synthetic events of the snapshot a watcher was given
InitialEvents(c) == ConvertAll(c, interval[c], 0)

HasBookmark(s) == \E i \in 1..Len(s) : s[i].type = "Bookmark"

\* C19: a watcher with allowBookmarks=false is delivered no Bookmark, and no
\* watcher is delivered a Bookmark below its bookmarkAfter; the recipients of a
\* Bookmark are taken from the bookmark queue, which holds only watchers with
\* allowBookmarks
C19_BookmarkSuppression ==
  /\ [](\A c \in Clients :
          /\ ~opts[c].bm
               => /\ ~HasBookmark(delivered[c]) /\ ~HasBookmark(sent[c])
                  /\ bookmarkWatchers[c] = 0
                  /\ c \notin Range(expiredBookmarkWatchers)
          /\ \A i \in 1..Len(delivered[c]) :
               delivered[c][i].type = "Bookmark"
                 => delivered[c][i].rv >= bookmarkAfter[c]
          /\ (dispatching /\ curEvent.type = "Bookmark")
               => (c \in Range(watchersBuffer) => opts[c].bm /\ widx[c] # -1))
  /\ [][(dpc = "idle" /\ curEvent'.type = "Bookmark")
          => \A w \in Range(watchersBuffer') : bookmarkWatchers[w] > 0]_vars

C19_Witness ==
  \E c, d \in Clients :
    /\ opts[c].bm /\ input[c] = <<>> /\ bookmarkAfter[c] > 0
    /\ \E i \in 1..Len(sent[c]) :
         sent[c][i].type = "Bookmark" /\ sent[c][i].rv < bookmarkAfter[c]
    /\ handle[d] = "watcher" /\ ~opts[d].bm /\ sent[d] # <<>>

\* the dispatcher, idle, starts dispatching a Bookmark of its own: a bookmark tick
TickBookmark == dpc = "idle" /\ curEvent'.type = "Bookmark"

RealProcessed == \E i \in 1..Len(processed) : processed[i].type # "Bookmark"

\* C20 as stated: on a bookmark tick a Bookmark is dispatched only if at least
\* one real (non-bookmark) event has been processed since startup, and it
\* carries the revision of the last processed event
C20_BookmarkAfterRealEvent ==
  [][TickBookmark
       => RealProcessed /\ curEvent'.rv = LastOf(processed).rv]_vars

\* C20 amended: on a bookmark tick a Bookmark is dispatched only if at least one
\* event, a real one or a Bookmark of the storage, has been taken from the
\* incoming queue and recorded since startup, and it carries the revision of the
\* last event recorded; before any event, a step of the idle dispatcher that
\* takes nothing from the incoming queue dispatches nothing
C20_BookmarkAfterAnyEvent ==
  [][/\ TickBookmark
          => processed # <<>> /\ curEvent'.rv = LastOf(processed).rv
     /\ (dpc = "idle" /\ processed = <<>> /\ incoming' = incoming)
          => ~dispatching']_vars

C20_Witness ==
  /\ dispatching /\ curEvent.type = "Bookmark" /\ watchersBuffer # <<>>
  /\ processed # <<>> /\ ~RealProcessed
  /\ curEvent.rv = LastOf(processed).rv
  /\ \E c \in Clients : sent[c] # <<>> /\ LastOf(sent[c]).type = "Bookmark"

\* the dispatcher takes a Bookmark of the storage from the incoming channel
TakesStorageBookmark ==
  /\ incoming # <<>> /\ incoming' = Tail(incoming)
  /\ Head(incoming).type = "Bookmark"

\* C21: a Bookmark arriving on the incoming channel is dispatched to no watcher
\* (taking it changes no watcher's channel and starts no dispatch), and every
\* Bookmark put on a watcher's channel comes from a bookmark tick of the idle
\* dispatcher, a step that takes nothing from the incoming channel
C21_StorageBookmarkDropped ==
  [][/\ TakesStorageBookmark
          => /\ input' = input /\ sent' = sent
             /\ ~dispatching' /\ curEvent' = curEvent /\ dpc' = "idle"
     /\ \A c \in Clients :
          (sent'[c] # sent[c] /\ LastOf(sent'[c]).type = "Bookmark")
            => /\ dpc = "idle" /\ incoming' = incoming
               /\ bookmarkTicks' = bookmarkTicks + 1]_vars

C21_Witness ==
  \E c \in Clients :
    /\ handle[c] = "watcher" /\ widx[c] # -1 /\ ~stopped[c]
    /\ opts[c].bm /\ bookmarkWatchers[c] > 0
    /\ processed # <<>> /\ LastOf(processed).type = "Bookmark"
    /\ baseRV[c] < LastOf(processed).rv
    /\ ~HasBookmark(sent[c]) /\ incoming = <<>>

\* the watchers of the dispatch that begins in this step whose channel is full
FullAtDispatch == {w \in Range(watchersBuffer') : Len(input[w]) = ChanSize}

\* C22: a Bookmark is offered with the non-blocking send only. A watcher whose
\* channel is full when the Bookmark is dispatched gets nothing, is not stopped
\* and stays registered; the dispatch of a Bookmark never enters the blocking
\* pass (where the time budget is taken) and force-closes no watcher
C22_BookmarkNonblocking ==
  /\ [](curEvent.type = "Bookmark"
          => dpc # "blocking" /\ blockedWatchers = <<>> /\ bidx = 0)
  /\ [][TickBookmark
          => /\ dpc' = "finish" /\ forceClosed' = forceClosed
             /\ \A w \in FullAtDispatch :
                  /\ input'[w] = input[w] /\ sent'[w] = sent[w]
                  /\ stopped'[w] = stopped[w] /\ widx'[w] = widx[w]
                  /\ Registered(w) /\ Registered(w)']_vars
  /\ [][(curEvent.type = "Bookmark" /\ dpc = "finish" /\ dpc' = "idle")
          => /\ forceClosed' = forceClosed
             /\ \A w \in Range(watchersBuffer) :
                  (stopped'[w] /\ ~stopped[w]) => w \in Range(watchersToStop)]_vars

C22_Witness ==
  \E w \in Clients :
    /\ dispatching /\ curEvent.type = "Bookmark" /\ dpc = "finish"
    /\ w \in Range(watchersBuffer)
    /\ Len(input[w]) = ChanSize /\ LastOf(input[w]).type # "Bookmark"
    /\ LastOf(sent[w]).type # "Bookmark"
    /\ ~stopped[w] /\ widx[w] # -1

\* the labels of the object of event e and of its previous object, where the
\* event has them
LabelsOf(e) ==
  IF e.type = "Added" THEN {e.cur}
  ELSE IF e.type = "Deleted" THEN {e.prev} ELSE {e.cur, e.prev}

\* watcher w is registered under a key event e is compatible with: its
\* namespace or any, its name or any; a trigger value of its object or of its
\* previous object when the trigger index is configured, any value when not
CompatibleWith(w, e) ==
  \/ \E s \in Scopes :
       /\ s[1] \in {"", EventNamespace} /\ s[2] \in {"", EventName}
       /\ \E p \in allWatchers[s] : p[2] = w
  \/ \E v \in TriggerValues :
       /\ HasIndexedTrigger => \E lab \in LabelsOf(e) : v = TriggerOf(lab)
       /\ \E p \in valueWatchers[v] : p[2] = w

\* the dispatcher takes an event and begins to dispatch it
TakesEvent ==
  /\ dpc = "idle" /\ incoming # <<>> /\ incoming' = Tail(incoming)
  /\ dispatching'

\* C23: the candidates of a non-bookmark event are exactly the registered
\* watchers whose scope key and trigger value are compatible with the event,
\* each of them once
C23_CandidateSet ==
  [][TakesEvent
       => /\ Range(watchersBuffer') =
               {w \in Clients : CompatibleWith(w, Head(incoming))}
          /\ Len(watchersBuffer') = Cardinality(Range(watchersBuffer'))]_vars

C23_Witness ==
  \E w, x \in Clients :
    /\ dispatching /\ curEvent.type = "Deleted" /\ curEvent.prev
    /\ Registered(w) /\ Registered(x)
    /\ w \in Range(watchersBuffer) /\ x \notin Range(watchersBuffer)
    /\ opts[w].trig = "v" /\ opts[x].trig = "u"
    /\ baseRV[x] < curEvent.rv /\ baseRV[w] < curEvent.rv

\* the keys of the registry maps that hold an entry of watcher w
KeysOf(w) ==
  {<<"all", s>> : s \in {t \in Scopes : \E p \in allWatchers[t] : p[2] = w}}
    \cup {<<"value", v>> :
            v \in {u \in TriggerValues : \E p \in valueWatchers[u] : p[2] = w}}

\* C24: a registered watcher has one entry in the registry, under
\* valueWatchers[trigger value] if its trigger value is supported and under
\* allWatchers[scope] otherwise, with the number it was given; the numbers are
\* handed out once: two watchers never share one, and all are below watcherIdx
C24_OneRegistryEntry ==
  /\ \A w \in Clients :
       Registered(w)
         => /\ KeysOf(w) = {IF opts[w].trig # "" THEN <<"value", opts[w].trig>>
                            ELSE <<"all", opts[w].scope>>}
            /\ Cardinality({p \in RegistryEntries : p[2] = w}) = 1
            /\ <<widx[w], w>> \in RegistryEntries
  /\ \A w \in Clients : widx[w] # -1 => widx[w] < watcherIdx
  /\ \A w, x \in Clients : (w # x /\ widx[w] # -1) => widx[w] # widx[x]

C24_Witness ==
  \E w, x \in Clients :
    /\ w # x /\ Registered(w) /\ Registered(x)
    /\ opts[w].trig # "" /\ opts[x].trig = "" /\ opts[x].scope = <<"other", "">>
    /\ widx[w] < widx[x]

BecomesReady == readyState # "Ready" /\ readyState' = "Ready"

\* C25: the gate is set ready by the Replace of a successful list only, and set
\* not ready, only and always, by the disconnect that ends a caching round with
\* a successful list. When the gate becomes ready the registry is empty and
\* every watcher registered before is stopped, or its stop is deferred to the
\* end of the dispatch under way; while the gate is ready every registered
\* watcher was registered in the current generation
C25_NoWatcherAcrossRelist ==
  /\ [](ReadyCheck => \A w \in Clients : Registered(w) => readyGen[w] = generation)
  /\ [][BecomesReady
          => /\ rpc = "replace" /\ successfulList' /\ generation' = generation + 1
             /\ RegistryEntries = {}
             /\ \A w \in Clients :
                  widx[w] # -1 => stopped[w] \/ w \in Range(watchersToStop)]_vars
  /\ [][(rpc = "watch" /\ rpc' = "start" /\ successfulList)
          => readyState' = "Pending"]_vars
  /\ [][(readyState = "Ready" /\ readyState' = "Pending")
          => rpc = "watch" /\ rpc' = "start" /\ successfulList]_vars

C25_Witness ==
  \E w \in Clients :
    /\ generation = 2 /\ ReadyCheck
    /\ widx[w] # -1 /\ readyGen[w] = 1 /\ sent[w] # <<>>
    /\ ~Registered(w) /\ stopped[w]

Registrations == {p[1] : p \in RegistryEntries}

\* C26: after Stop the gate is stopped for good; every Watch, Get or GetList
\* that is at the wait for readiness after Stop fails there with
\* ServiceUnavailable, in a step that is enabled at once (the call does not
\* block); and no watcher is registered after Stop
C26_GateFailsAfterStop ==
  /\ [](cacherStopped => readyState = "Stopped")
  /\ [](cacherStopped
          => /\ \A c \in RestartClients :
                  pc[c] = "gate" => ENABLED WatchWaitReady(c)
             /\ gpc = "wait" => ENABLED GetTimeout)
  /\ [][cacherStopped
          => /\ \A c \in Clients :
                  (pc[c] = "gate" /\ pc'[c] # "gate")
                    => /\ pc'[c] = "done" /\ handle'[c] = "nil"
                       /\ werr'[c] = "ServiceUnavailable"
             /\ (gpc = "wait" /\ gpc' # "wait")
                  => /\ gpc' = "done" /\ gres'.kind = "error"
                     /\ gres'.err = "ServiceUnavailable"
             /\ Registrations' \subseteq Registrations
             /\ watcherIdx' = watcherIdx]_vars

C26_Witness ==
  \E c \in Clients :
    /\ cacherStopped /\ generation >= 1
    /\ pc[c] = "done" /\ handle[c] = "nil" /\ werr[c] = "ServiceUnavailable"
    /\ gpc = "done" /\ gres.kind = "error" /\ gres.err = "ServiceUnavailable"
    /\ greq.kind = "GetList"

\* C27: Delete and GuaranteedUpdate read the cache and then make one call to
\* the storage, with the object the cache holds for the key as the base value
\* (whatever their caller suggested) and without hint when the cache holds none
\* or cannot be read; the result of the storage is what they return. Their steps
\* leave the watch cache, the registry, the gate and the dispatcher alone, and
\* the contents of the watch cache change in steps of the reflector only
C27_MutationsPassThrough ==
  [][/\ (mut.pc = "idle" /\ mut'.pc = "call")
          => /\ mut'.calls = mut.calls
             /\ mut'.hint = IF store.present /\ ~mut'.err
                              THEN [given |-> TRUE, obj |-> store] ELSE NoHint
     /\ (mut.pc = "call" /\ mut'.pc = "idle")
          => /\ mut'.calls = Append(mut.calls, [kind |-> mut.req.kind,
                                                hint |-> mut.hint,
                                                result |-> mut'.res])
             /\ mut'.res \in StoreResults
     /\ mut'.calls # mut.calls => mut.pc = "call"
     /\ mut' # mut
          => UNCHANGED <<wcVars, reflVars, readyVars, cacherLock, regVars, incoming,
                         dispVars, watcherVars>>
     /\ <<wcRV, listRV, ring, store>>' # <<wcRV, listRV, ring, store>>
          => rpc \in {"replace", "assimilate"} /\ rpc' # rpc]_vars

C27_Witness ==
  /\ mut.pc = "idle" /\ Len(mut.calls) = 2 /\ mut.res = "Conflict"
  /\ mut.calls[1].kind = "Delete" /\ mut.calls[1].hint.given
  /\ ~mut.calls[1].hint.obj.lab
  /\ mut.calls[2].kind = "GuaranteedUpdate" /\ ~mut.calls[2].hint.given
  /\ mut.req.suggestion.given /\ ~mut.err

RECURSIVE RecordedAll(_)
RecordedAll(es) ==
  IF es = <<>> THEN <<>> ELSE <<Recorded(Head(es))>> \o RecordedAll(Tail(es))

\* the events between the watch cache and the record of the dispatcher: the one
\* the reflector is pushing, those in the incoming channel, the one being
\* dispatched
InFlight ==
  (IF dispatching /\ curEvent.type # "Bookmark" THEN <<Recorded(curEvent)>>
   ELSE <<>>)
    \o RecordedAll(incoming)
    \o (IF rpc = "push" THEN <<Recorded(pendingEvent)>> ELSE <<>>)

TaskTakes(c) ==
  /\ wpc[c] = "live" /\ input[c] # <<>> /\ input'[c] = Tail(input[c])
  /\ Head(input[c]).type # "Bookmark"
  /\ Head(input[c]).rv > lastDeliveredRV[c]
  /\ ~stopped[c]

\* what was sent to the client of c in the step
NewlySent(c) == SubSeq(delivered'[c], Len(delivered[c]) + 1, Len(delivered'[c]))

\* the selector of the watcher of c on an object with label lab
Matched(c, lab) ==
  CASE opts[c].filt = "all" -> TRUE
    [] opts[c].filt = "sel" -> lab
    [] opts[c].filt = "neg" -> ~lab
    [] OTHER -> FALSE

Twins(c, d) ==
  /\ c # d /\ handle[c] = "watcher" /\ handle[d] = "watcher"
  /\ widx[c] >= 0 /\ widx[d] >= 0
  /\ opts[c] = opts[d] /\ baseRV[c] = baseRV[d]
  /\ c \notin forceClosed /\ d \notin forceClosed

\* one of the sequences is the beginning of the other
Agree(s, t) == IsPrefix(s, t) \/ IsPrefix(t, s)

\* no dispatch is under way and the tasks of both watchers have taken all that
\* was put on their input channels
Quiet(c, d) == dpc = "idle" /\ input[c] = <<>> /\ input[d] = <<>>

\* C30 as stated: two watchers registered with identical parameters at the same
\* revision are sent identical sequences of events, Bookmarks included, as long
\* as neither is force-closed: what one has been sent so far is the beginning
\* of what the other has been sent, and between dispatches, once both tasks
\* have caught up, they have been sent the same
C30_IdenticalSequences ==
  \A c, d \in Clients :
    Twins(c, d) => /\ Agree(delivered[c], delivered[d])
                   /\ Quiet(c, d) => delivered[c] = delivered[d]

\* C30 as amended: two watchers registered with identical parameters at the same
\* revision are sent identical sequences of events other than Bookmarks, as
\* long as neither is force-closed; the Bookmarks sent to one need not be sent
\* to the other
C30_IdenticalBesidesBookmarks ==
  \A c, d \in Clients :
    Twins(c, d)
      => /\ Agree(NoBookmarks(delivered[c]), NoBookmarks(delivered[d]))
         /\ Quiet(c, d) => NoBookmarks(delivered[c]) = NoBookmarks(delivered[d])

\* two such watchers with bookmarks allowed have both been sent two events, and
\* one of them a Bookmark the other was not sent
C30_Witness ==
  \E c, d \in Clients :
    /\ Twins(c, d) /\ opts[c].bm
    /\ Len(NoBookmarks(delivered[c])) >= 2 /\ Len(NoBookmarks(delivered[d])) >= 2
    /\ HasBookmark(delivered[c]) /\ ~HasBookmark(delivered[d])
    /\ Quiet(c, d)

(* ------------------------- C31 ---------------------------------------- *)
\* dispatchEvent has started on an event other than a Bookmark
StartsDispatch == dpc = "idle" /\ dpc' # "idle" /\ curEvent'.type # "Bookmark"

\* the channel of watcher w takes one more event
HasRoom(w) == closeCount[w] = 0 /\ Len(input[w]) < ChanSize

\* C31: within one dispatch of an event other than a Bookmark the event is
\* offered without blocking to every candidate before any blocking send: in the
\* step that starts the dispatch every candidate with room in its channel has
\* the event put on it, only candidates whose channel was full are left to the
\* blocking pass, and a blocking send goes to one of those only
C31_NonblockingFirst ==
  [][/\ StartsDispatch
          => /\ \A w \in Range(watchersBuffer') :
                  HasRoom(w) => /\ input'[w] = Append(input[w], curEvent')
                                /\ w \notin Range(blockedWatchers')
             /\ \A w \in Range(blockedWatchers') :
                  w \in Range(watchersBuffer') /\ Len(input[w]) >= ChanSize
     /\ dpc = "blocking"
          => /\ blockedWatchers' = blockedWatchers /\ curEvent' = curEvent
             /\ \A w \in Clients :
                  input'[w] # input[w] /\ Len(input'[w]) > Len(input[w])
                    => w = BlockedWatcher]_vars

\* the dispatcher is in the blocking pass behind the first candidate, whose
\* channel is full, while the second candidate has the event on its channel
C31_Witness ==
  /\ dpc = "blocking" /\ Len(watchersBuffer) = 2
  /\ watchersBuffer[1] # watchersBuffer[2]
  /\ blockedWatchers = <<watchersBuffer[1]>>
  /\ Len(input[watchersBuffer[1]]) >= ChanSize
  /\ curEvent \in Range(input[watchersBuffer[2]])

(* ------------------------- C32 ---------------------------------------- *)
\* C32: when a Bookmark with revision X is put on the channel of a watcher,
\* every event other than a Bookmark with a revision up to X that was
\* dispatched with the watcher as a candidate is on the channel's history before
\* it, unless the watcher was force-closed, and every event other than a
\* Bookmark put on the channel after it has a revision above X
C32_BookmarkInOrder ==
  \A w \in Clients :
    \A i \in 1..Len(sent[w]) :
      sent[w][i].type = "Bookmark"
        => /\ \A r \in offered[w] :
                r <= sent[w][i].rv
                  => \/ w \in forceClosed
                     \/ \E k \in 1..(i - 1) :
                          sent[w][k].type # "Bookmark" /\ sent[w][k].rv = r
           /\ \A j \in (i + 1)..Len(sent[w]) :
                sent[w][j].type # "Bookmark" => sent[w][j].rv > sent[w][i].rv

\* a watcher was sent an event, the Bookmark of its revision and then the next
\* event, and was a candidate of both dispatches
C32_Witness ==
  \E w \in Clients :
    /\ Len(sent[w]) = 3 /\ w \notin forceClosed
    /\ sent[w][1].type # "Bookmark" /\ sent[w][3].type # "Bookmark"
    /\ sent[w][2] = [type |-> "Bookmark", rv |-> sent[w][1].rv]
    /\ offered[w] = {sent[w][1].rv, sent[w][3].rv}

(* ------------------------- C33 ---------------------------------------- *)
\* a registered watcher with allowBookmarks that is not stopped
LiveBookmarkWatcher(c) ==
  handle[c] = "watcher" /\ widx[c] >= 0 /\ opts[c].bm /\ ~stopped[c]

\* C33: on every bookmark tick of the dispatcher each live watcher popped from
\* the time buckets is queued again, so that a live watcher with allowBookmarks
\* is never lost from the bookmark schedule: it is in a time bucket, or it was
\* popped for the dispatch under way and waits in expiredBookmarkWatchers to be
\* queued again
C33_NeverLostFromSchedule ==
  \A c \in Clients :
    LiveBookmarkWatcher(c)
      => bookmarkWatchers[c] > 0 \/ c \in Range(expiredBookmarkWatchers)

(* ------------------------- C34 ---------------------------------------- *)
\* C34: every call of dispatchEvent completes even if candidate watchers never
\* drain their channels: the blocking sends end with the shared timer, which
\* closes the watchers still blocked, and the dispatcher goes on to the next
\* event of the incoming channel, so that every event put on the channel is
\* processed to its end
C34_DispatchCompletes ==
  /\ (dpc # "idle") ~> (dpc = "idle")
  /\ \A r \in 1..MaxRV :
       (\E i \in 1..Len(incoming) : incoming[i].rv = r)
         ~> (dpc = "idle" /\ lastProcessedRV >= r)

\* the last event has been processed to its end after the blocking pass closed
\* a watcher whose channel is still full
C34_Witness ==
  /\ dpc = "idle" /\ lastProcessedRV = MaxRV
  /\ \E w \in forceClosed : Len(input[w]) >= ChanSize

(* ------------------------- C35 ---------------------------------------- *)
\* the reader takes its answer from the watch cache
ReadsCache == gpc = "fresh" /\ gpc' = "done" /\ gres'.kind = "cache"

C36_NoSendToStopped ==
  /\ [](\A w \in Clients : stopped[w] => ~Registered(w))
  /\ [][/\ (dpc = "idle" /\ dpc' # "idle")
             => \A w \in Range(watchersBuffer') : ~stopped[w] /\ closeCount[w] = 0
        /\ \A w \in Clients :
             sent'[w] # sent[w]
               => /\ ~stopped[w] /\ closeCount[w] = 0
                  /\ w \in Range(watchersBuffer')
        /\ sendOnClosed' = sendOnClosed]_vars

\* a Bookmark is being dispatched to nobody: the watchers popped from the
\* bookmark queue had been stopped and were skipped
C36_Witness ==
  /\ dispatching /\ curEvent.type = "Bookmark" /\ watchersBuffer = <<>>
  /\ \E w \in Clients :
       /\ opts[w].bm /\ widx[w] >= 0 /\ stopped[w] /\ closeCount[w] = 1
       /\ bookmarkWatchers[w] = 0 /\ sent[w] # <<>>

(* ------------------------- C37 ---------------------------------------- *)
\* C37: Stop eventually returns, however the dispatcher's leaving its loop on
\* the stop signal interleaves with the reflector's pushing events through
\* processEvent, and when the call that stopped the cacher has returned every
\* watcher has been terminated and the registry is empty
C37_StopReturns ==
  /\ \A k \in StopCallers : (spc[k] = "wait") ~> (spc[k] = "returned")
  /\ [](\A k \in StopCallers :
          (spc[k] = "returned" /\ stopCh > 0 /\ rpc = "exited")
            => /\ RegistryEntries = {}
               /\ \A c \in Clients : widx[c] >= 0 => stopCalls[c] >= 1)

(* ------------------------- C38 ---------------------------------------- *)
\* C38: a call of Stop that finds the cacher stopped returns at once, leaving
\* the readiness gate and the stop channel as they are and never reaching
\* close(c.stopCh); only the call that set stopped closes the channel, so the
\* channel is closed at most once, and once some call has stopped the cacher
\* it is closed exactly once
C38_StopIdempotent ==
  /\ [](stopCh <= 1)
  /\ [][\A k \in StopCallers :
          /\ (cacherStopped /\ spc[k] = "idle" /\ spc'[k] # "idle")
               => /\ spc'[k] = "returned"
                  /\ UNCHANGED <<readyState, cacherStopped, stopCh>>
          /\ stopCh' # stopCh
               => /\ stopCh = 0 /\ stopCh' = 1
                  /\ Cardinality({j \in StopCallers : spc[j] = "close"}) = 1
          /\ (readyState # "Stopped" /\ readyState' = "Stopped")
               => ~cacherStopped /\ cacherStopped']_vars
  /\ cacherStopped ~> (stopCh = 1)

\* a second call has returned while the first, which closed the channel, is
\* still waiting for the goroutines
C38_Witness ==
  \E k, j \in StopCallers :
    /\ k # j /\ spc[k] = "returned" /\ spc[j] = "wait"
    /\ stopCh = 1 /\ readyState = "Stopped"

(* ------------------------- C39 ---------------------------------------- *)
\* C39: watchersBuffer never holds a watcher twice; a watcher has at most one
\* entry in the bookmark time buckets and the list of watchers to re-queue taken
\* together; and the input channel of a watcher never gets the same event twice:
\* its non-bookmark events have distinct revisions and it got no more Bookmarks
\* than bookmark dispatches were made
C39_NoDuplicateCandidates ==
  \A w \in Clients :
    /\ Count(watchersBuffer, w) <= 1
    /\ Count(blockedWatchers, w) <= 1
    /\ bookmarkWatchers[w] + Count(expiredBookmarkWatchers, w) <= 1
    /\ \A i, j \in 1..Len(sent[w]) :
         (i # j /\ sent[w][i].type # "Bookmark" /\ sent[w][j].type # "Bookmark")
           => sent[w][i].rv # sent[w][j].rv
    /\ Cardinality({i \in 1..Len(sent[w]) : sent[w][i].type = "Bookmark"})
         <= bookmarkTicks

\* an event whose object and previous object have the same trigger value is
\* being dispatched to a watcher of that value, which also got a Bookmark and
\* is queued for the next one
C39_Witness ==
  \E w \in Clients :
    /\ dispatching /\ curEvent.type = "Deleted"
    /\ opts[w].trig # "" /\ w \in Range(watchersBuffer)
    /\ \E i \in 1..Len(sent[w]) : sent[w][i].type = "Bookmark"
    /\ \E i \in 1..Len(sent[w]) : sent[w][i].rv = curEvent.rv /\ sent[w][i].type # "Bookmark"
    /\ bookmarkWatchers[w] = 1

(* ------------------------- C40 ---------------------------------------- *)
WatchSteps(c) == pc'[c] # pc[c]

WatchSucceeds(c) == WatchSteps(c) /\ pc'[c] = "done" /\ handle'[c] = "watcher"

\* C40: a step of a Watch call changes the registry, the watcher id counter,
\* the bookmark queue and the watcher's task only when it is the return of a
\* live watcher: then exactly the entry <<watcherIdx, watcher>> is added, the
\* counter advances by one, the watcher is queued for bookmarks if it allows
\* them and its task is started. A call that returned anything else (storage
\* watch, error, error-event handle, immediately-closed handle) has no
\* registry entry, no number and no task, and a returned call holds no read
\* lock of the watch cache
C40_WatchAllOrNothing ==
  /\ [](\A c \in Clients :
          pc[c] = "done"
            => /\ wcReaders[c] = 0
               /\ handle[c] \in {"storage", "nil", "error", "closed", "watcher"}
               /\ handle[c] # "watcher"
                    => widx[c] = -1 /\ wpc[c] = "none" /\ ~Registered(c)
                       /\ bookmarkWatchers[c] = 0)
  /\ [][\A c \in Clients :
          /\ (WatchSteps(c) /\ ~WatchSucceeds(c))
               => /\ UNCHANGED <<watcherIdx, allWatchers, valueWatchers,
                                 bookmarkWatchers>>
                  /\ wpc'[c] = wpc[c] /\ widx'[c] = widx[c]
          /\ WatchSucceeds(c)
               => /\ watcherIdx' = watcherIdx + 1
                  /\ <<watcherIdx, c>> \notin RegistryEntries
                  /\ RegistryEntries' = RegistryEntries \cup {<<watcherIdx, c>>}
                  /\ Cardinality(RegistryEntries') = Cardinality(RegistryEntries) + 1
                  /\ bookmarkWatchers' =
                       [bookmarkWatchers EXCEPT
                          ![c] = IF opts[c].bm THEN @ + 1 ELSE @]
                  /\ widx'[c] = watcherIdx
                  /\ wpc[c] = "none" /\ wpc'[c] = "live"]_vars

\* Watch has returned an error-event handle for a revision that is too old,
\* after it had taken the read lock of the watch cache
C40_Witness ==
  \E c \in Clients :
    /\ pc[c] = "done" /\ handle[c] = "error"
    /\ delivered[c] = ErrWatcher("TooOldResourceVersion")
    /\ wcReaders[c] = 0 /\ watcherIdx = 0 /\ RegistryEntries = {}
=============================================================================
